---- MODULE Spec2Model ----
(***************************************************************************)
(* Model of the A2A task lifecycle engine: the TaskManager store           *)
(* (src/src/task-manager.ts), the JSON-RPC dispatcher                      *)
(* (src/src/rpc-handler.ts) and the SSE streaming bridge of the extension  *)
(* entry point (src/unnamed/part_008, handleSSEStream).                    *)
(*                                                                         *)
(* JavaScript runs every callback to completion, so one action is one      *)
(* synchronous run: a request handler up to its first real suspension, a   *)
(* promise continuation, or an I/O callback.  Task records are objects     *)
(* that are shared by reference (the map, the running execution and the    *)
(* emitted events all hold the same object), hence the explicit heap.      *)
(***************************************************************************)
EXTENDS Integers, Sequences, FiniteSets

VARIABLES
    heap,       \* every Task object ever constructed, by allocation order
    tasks,      \* TaskManager.tasks : Map<string, Task> (id -> heap index, 0 = absent)
    taskOrder,  \* TaskManager.taskOrder : string[]
    handler,    \* TaskManager.handler : TaskHandler | null
    exec,       \* per Task object: the executeTask call started by its createTask
    events,     \* per Task object: the TaskEvents emitted with it, in emission order
    subs,       \* one record per handleSSEStream invocation (its closure and its sink)
    listeners,  \* the eventHandler closures registered with taskManager.on('task', ..)
    awaiting,   \* the createTask promise a handleTaskSend call awaits (task 0 = none)
    now,        \* the clock read by Date.now() and new Date(), in milliseconds
    authToken,  \* the authToken of the extension's configuration (undefined = none)
    last        \* the operation performed by the latest step and what it returned

vars == <<heap, tasks, taskOrder, handler, exec, events, subs, listeners, awaiting,
          now, authToken, last>>

----------------------------------------------------------------------------
(* Bounds of the model                                                     *)

MaxTasks == 2       \* createTask calls in one behaviour
MaxCancels == 2     \* cancelTask calls that emit an event
MaxArtifacts == 2   \* artifacts returned by one handler invocation
MaxListTasks == 3   \* createTask calls in one behaviour of the listing specification
MaxTime == 2        \* milliseconds that pass in one behaviour
MaxSubs == 1        \* tasks/sendSubscribe streams opened in one behaviour

TaskIds == {"t1", "t2"}
Messages == {[role |-> "user", text |-> "hi"]}
Handlers == {"h1"}

\* Every id a request can name; the store is keyed by these.
StoreIds == TaskIds \cup {"", "t3"}

----------------------------------------------------------------------------
(* Values                                                                  *)

Null == "null"
Undefined == "undefined"

TaskStates == {"submitted", "working", "completed", "failed", "canceled"}

\* The three states the streaming bridge treats as the end of the stream.
StreamEndStates == {"completed", "failed", "canceled"}

\* What a handler invocation can produce: the fulfilment value of its promise ...
Response == [role |-> "agent", text |-> "reply"]

RECURSIVE ArtifactSeq(_)
ArtifactSeq(n) == IF n = 0 THEN <<>> ELSE Append(ArtifactSeq(n - 1), [index |-> n])

HandlerResults ==
    {[response |-> Response, hasArtifacts |-> FALSE, artifacts |-> <<>>]}
    \cup {[response |-> Response, hasArtifacts |-> TRUE, artifacts |-> ArtifactSeq(n)] :
             n \in 0..MaxArtifacts}

\* ... or the value it throws or rejects with: an Error carrying a message, or
\* any other value.
ThrownValues ==
    {[isError |-> TRUE, message |-> "boom"], [isError |-> FALSE, message |-> Undefined]}

ErrorCodes ==
    [PARSE_ERROR |-> -32700, INVALID_REQUEST |-> -32600, METHOD_NOT_FOUND |-> -32601,
     INVALID_PARAMS |-> -32602, INTERNAL_ERROR |-> -32603, TASK_NOT_FOUND |-> -32001,
     TASK_CANNOT_BE_CANCELED |-> -32002]

----------------------------------------------------------------------------
(* Events and listeners                                                    *)

\* The TaskEvent built by emitTaskEvent.  The event holds the Task object
\* itself; `state` is what event.task.status.state reads while the listeners
\* run, i.e. the state of the object at emission.
TaskEvent(type, o, task, extra) ==
    [type |-> type, task |-> o, id |-> task.id, state |-> task.status.state,
     message |-> task.status.message, extra |-> extra]

NoExtra == [kind |-> "none"]
MessageExtra(m) == [kind |-> "message", message |-> m]
ArtifactExtra(a) == [kind |-> "artifact", artifact |-> a]

\* EventEmitter.off: removing a listener that is not registered changes nothing.
Off(ls, s) == ls \ {s}

\* eventHandler without the taskManager.off call of line 137: the stream is
\* ended but the listener stays registered.
eventHandler_KeepsListening(s, ev, st) ==
    IF ev.id = st.subs[s].taskId
    THEN LET written == [st.subs EXCEPT ![s].sink = Append(@, ev)]
         IN  IF ev.state \in StreamEndStates
             THEN [subs |-> [written EXCEPT ![s].ended = TRUE], listeners |-> st.listeners]
             ELSE [subs |-> written, listeners |-> st.listeners]
    ELSE st

\* eventHandler of one stream, called with one event.  st = [subs, listeners].
eventHandler(s, ev, st) ==
    IF ev.id = st.subs[s].taskId
    THEN LET written == [st.subs EXCEPT ![s].sink = Append(@, ev)]
         IN  IF ev.state \in StreamEndStates
             THEN [subs |-> [written EXCEPT ![s].ended = TRUE],
                   listeners |-> Off(st.listeners, s)]
             ELSE [subs |-> written, listeners |-> st.listeners]
    ELSE st

\* emit('task', event): every listener registered when emit starts is called.
RECURSIVE CallListeners(_, _, _)
CallListeners(todo, ev, st) ==
    IF todo = {} THEN st
    ELSE LET s == CHOOSE x \in todo : \A y \in todo : x <= y
         IN  CallListeners(todo \ {s}, ev, eventHandler(s, ev, st))

emitTaskEvent(ev, st) == CallListeners(st.listeners, ev, st)

RECURSIVE EmitAll(_, _)
EmitAll(evs, st) ==
    IF evs = <<>> THEN st ELSE EmitAll(Tail(evs), emitTaskEvent(Head(evs), st))

Bridge == [subs |-> subs, listeners |-> listeners]

----------------------------------------------------------------------------
NotAwaiting == [task |-> 0, rejected |-> FALSE]

Init ==
    /\ heap = <<>>
    /\ tasks = [id \in StoreIds |-> 0]
    /\ taskOrder = <<>>
    /\ handler = Null
    /\ exec = <<>>
    /\ events = <<>>
    /\ subs = <<>>
    /\ listeners = {}
    /\ awaiting = NotAwaiting
    /\ now = 0
    /\ authToken = Undefined
    /\ last = [op |-> "init"]

\* A continuation of an `await taskManager.createTask(..)` is queued as a
\* microtask: no new request, timer or socket callback runs before it.
InMicrotask == awaiting.task # 0 \/ \E s \in DOMAIN subs : subs[s].pc = "created"

\* A scheduler that lets new requests run while a caller of createTask is
\* still waiting to resume.
FromEventLoop_Always == TRUE

\* The promise returned by createTask settles in the same microtask drain as
\* the synchronous part of createTask, so callers that await it resume before
\* any new request.  Everything else starts from the event loop.
FromEventLoop == ~InMicrotask

\* setHandler that also hands the new handler to the executions under way.
setHandler_Rebinds(h) ==
    /\ FromEventLoop
    /\ handler # h
    /\ handler' = h
    /\ exec' = [o \in DOMAIN exec |->
                  IF exec[o].st = "pending" THEN [exec[o] EXCEPT !.h = h] ELSE exec[o]]
    /\ last' = [op |-> "setHandler"]
    /\ UNCHANGED <<heap, tasks, taskOrder, events, subs, listeners, awaiting, now, authToken>>

setHandler(h) ==
    /\ FromEventLoop
    /\ handler # h
    /\ handler' = h
    /\ last' = [op |-> "setHandler"]
    /\ UNCHANGED <<heap, tasks, taskOrder, exec, events, subs, listeners, awaiting, now, authToken>>

----------------------------------------------------------------------------
(* TaskManager.createTask and the synchronous prefix of executeTask         *)

\* How the call this.handler(lastMessage) ends: it returns a promise that is
\* awaited, or it throws before returning one.
Invocations ==
    {[kind |-> "pending", value |-> [isError |-> FALSE, message |-> Undefined]]}
    \cup {[kind |-> "throw", value |-> v] : v \in ThrownValues}

ErrorMessage(error) == IF error.isError THEN error.message ELSE "Unknown error"

\* params.sessionId || crypto.randomUUID(): the caller's session id, or a
\* fresh identifier (told apart by the object it was generated for) when the
\* caller gave none or an empty one.
SessionIdOf(sessionId, o) ==
    IF sessionId \in {Undefined, ""}
    THEN [kind |-> "generated", by |-> o, value |-> Undefined]
    ELSE [kind |-> "given", by |-> 0, value |-> sessionId]

NewTask(id, sessionId, message) ==
    [id |-> id,
     sessionId |-> sessionId,
     status |-> [state |-> "submitted", message |-> Undefined, timestamp |-> now],
     artifacts |-> <<>>,
     history |-> <<message>>]

\* Every status is stamped with the time of its assignment.
WorkingStatus == [state |-> "working", message |-> Undefined, timestamp |-> now]
\* A completed status that reports its outcome in message.
CompletedStatus_Message == [state |-> "completed", message |-> "done", timestamp |-> now]
CompletedStatus == [state |-> "completed", message |-> Undefined, timestamp |-> now]
CanceledStatus == [state |-> "canceled", message |-> Undefined, timestamp |-> now]
\* task.history?.[task.history.length - 1] (line 88): the argument of the
\* handler.
LastMessage(task) == task.history[Len(task.history)]

\* The failed status without the fallback of line 116 for values that are not
\* Errors.
FailedStatus_NoFallback(error) ==
    [state |-> "failed", message |-> error.message, timestamp |-> now]

FailedStatus(error) ==
    [state |-> "failed", message |-> ErrorMessage(error), timestamp |-> now]

\* executeTask without the handler test of line 76: calling the missing
\* handler throws a TypeError inside the try block.
executeTaskStart_NoHandlerCheck(o, task, inv) ==
    LET working == [task EXCEPT !.status = WorkingStatus]
        evWorking == TaskEvent("status", o, working, NoExtra)
        thrown == IF handler = Null
                  THEN [isError |-> TRUE, message |-> "this.handler is not a function"]
                  ELSE inv.value
    IN  IF handler = Null \/ inv.kind = "throw"
        THEN LET failed == [working EXCEPT !.status = FailedStatus(thrown)]
             IN  [task |-> failed,
                  emitted |-> <<evWorking, TaskEvent("status", o, failed, NoExtra)>>,
                  exec |-> [st |-> "done", h |-> handler, arg |-> LastMessage(task)]]
        ELSE [task |-> working, emitted |-> <<evWorking>>,
              exec |-> [st |-> "pending", h |-> handler, arg |-> LastMessage(task)]]

\* executeTask that yields before it looks at the task: the handler is
\* called in a later turn and createTask returns a submitted task.
executeTaskStart_Yields(o, task, inv) ==
    IF handler = Null
    THEN [task |-> task, emitted |-> <<>>, exec |-> [st |-> "none", h |-> Null, arg |-> Undefined]]
    ELSE [task |-> task, emitted |-> <<>>,
          exec |-> [st |-> "pending", h |-> handler, arg |-> LastMessage(task)]]

\* executeTask up to and including the call of the handler (lines 74-92) and,
\* when that call throws, the catch block (lines 112-119).  Returns the Task
\* object, the events emitted and the state of the execution.
executeTaskStart(o, task, inv) ==
    IF handler = Null
    THEN [task |-> task, emitted |-> <<>>, exec |-> [st |-> "none", h |-> Null, arg |-> Undefined]]
    ELSE LET working == [task EXCEPT !.status = WorkingStatus]
             evWorking == TaskEvent("status", o, working, NoExtra)
         IN  IF inv.kind = "throw"
             THEN LET failed == [working EXCEPT !.status = FailedStatus(inv.value)]
                  IN  [task |-> failed,
                       emitted |-> <<evWorking, TaskEvent("status", o, failed, NoExtra)>>,
                       exec |-> [st |-> "done", h |-> handler, arg |-> LastMessage(task)]]
             ELSE [task |-> working, emitted |-> <<evWorking>>,
                   exec |-> [st |-> "pending", h |-> handler, arg |-> LastMessage(task)]]

\* createTask whose promise rejects when the handler throws: the execution
\* is awaited and what escapes it is passed on to the caller.
createTask_Propagates(id, sessionId, message, inv) ==
    LET o == Len(heap) + 1
        task == NewTask(id, SessionIdOf(sessionId, o), message)
        evCreated == TaskEvent("status", o, task, NoExtra)
        started == executeTaskStart(o, task, inv)
        emitted == <<evCreated>> \o started.emitted
        bridge == EmitAll(emitted, Bridge)
    IN  [task |-> o,
         rejected |-> (handler # Null /\ inv.kind = "throw"),
         heap |-> Append(heap, started.task),
         tasks |-> [tasks EXCEPT ![id] = o],
         taskOrder |-> Append(taskOrder, id),
         exec |-> Append(exec, started.exec),
         events |-> Append(events, emitted),
         subs |-> bridge.subs,
         listeners |-> bridge.listeners]

\* createTask(params) for params = {id, sessionId, message}; inv is how the
\* handler call inside executeTask ends.  The new object replaces whatever the
\* map held.  Returns the store, the event log and the bridge after the call,
\* and whether the promise of createTask rejects: it never does, executeTask
\* catches what the handler throws (lines 86-119) and its own promise is not
\* awaited and carries a catch (lines 67-69).
createTask(id, sessionId, message, inv) ==
    LET o == Len(heap) + 1
        task == NewTask(id, SessionIdOf(sessionId, o), message)
        evCreated == TaskEvent("status", o, task, NoExtra)
        started == executeTaskStart(o, task, inv)
        emitted == <<evCreated>> \o started.emitted
        bridge == EmitAll(emitted, Bridge)
    IN  [task |-> o,
         rejected |-> FALSE,
         heap |-> Append(heap, started.task),
         tasks |-> [tasks EXCEPT ![id] = o],
         taskOrder |-> Append(taskOrder, id),
         exec |-> Append(exec, started.exec),
         events |-> Append(events, emitted),
         subs |-> bridge.subs,
         listeners |-> bridge.listeners]

RpcError(code) == [kind |-> "error", code |-> code]
RpcResult(value) == [kind |-> "result", value |-> value]

\* The handler is only called when one is registered.
CanInvoke(inv) == handler # Null \/ inv.kind = "pending"

\* handleTaskSend with params that pass TaskSendParamsSchema, up to its
\* `await taskManager.createTask(..)` (lines 49-64).
handleTaskSend(id, sessionId, message, inv) ==
    /\ FromEventLoop
    /\ CanInvoke(inv)
    /\ LET c == createTask(id, sessionId, message, inv)
       IN  /\ heap' = c.heap
           /\ tasks' = c.tasks
           /\ taskOrder' = c.taskOrder
           /\ exec' = c.exec
           /\ events' = c.events
           /\ subs' = c.subs
           /\ listeners' = c.listeners
           /\ awaiting' = [task |-> c.task, rejected |-> c.rejected]
           /\ last' = [op |-> "tasks/send", id |-> id, sessionId |-> sessionId,
                       message |-> message, task |-> c.task, inv |-> inv]
    /\ UNCHANGED <<handler, now, authToken>>

\* Lines 64-70: the continuation of handleTaskSend.  A fulfilled createTask
\* gives a response built around the Task object, which shows the object as it
\* is at that moment; a rejected one gives the internal error of the catch.
handleTaskSendReturn ==
    /\ awaiting.task # 0
    /\ awaiting' = NotAwaiting
    /\ last' = [op |-> "tasks/send.return", task |-> awaiting.task,
                response |-> IF awaiting.rejected
                             THEN RpcError(ErrorCodes.INTERNAL_ERROR)
                             ELSE RpcResult(heap[awaiting.task])]
    /\ UNCHANGED <<heap, tasks, taskOrder, handler, exec, events, subs, listeners, now, authToken>>

----------------------------------------------------------------------------
(* The rest of executeTask, run when the awaited handler promise settles    *)

\* The loop of lines 102-104 run from the last artifact to the first.
RECURSIVE ArtifactEvents_Reversed(_, _, _)
ArtifactEvents_Reversed(o, task, artifacts) ==
    IF artifacts = <<>> THEN <<>>
    ELSE ArtifactEvents_Reversed(o, task, Tail(artifacts))
         \o <<TaskEvent("artifact", o, task, ArtifactExtra(Head(artifacts)))>>

RECURSIVE ArtifactEvents(_, _, _)
ArtifactEvents(o, task, artifacts) ==
    IF artifacts = <<>> THEN <<>>
    ELSE <<TaskEvent("artifact", o, task, ArtifactExtra(Head(artifacts)))>>
         \o ArtifactEvents(o, task, Tail(artifacts))

\* executeTask with a cancellation check before the result is applied: the
\* fulfilment of a task that was canceled meanwhile is dropped.
executeTaskResolved_SkipsCanceled(o, result) ==
    LET t0 == heap[o]
        t1 == [t0 EXCEPT !.history = Append(@, result.response)]
        evMessage == TaskEvent("message", o, t1, MessageExtra(result.response))
        t2 == IF result.hasArtifacts THEN [t1 EXCEPT !.artifacts = result.artifacts] ELSE t1
        evArtifacts == IF result.hasArtifacts
                       THEN ArtifactEvents(o, t2, result.artifacts) ELSE <<>>
        t3 == [t2 EXCEPT !.status = CompletedStatus]
        canceled == t0.status.state = "canceled"
        emitted == IF canceled THEN <<>>
                   ELSE <<evMessage>> \o evArtifacts \o <<TaskEvent("status", o, t3, NoExtra)>>
        bridge == EmitAll(emitted, Bridge)
    IN  /\ exec[o].st = "pending"
        /\ heap' = [heap EXCEPT ![o] = IF canceled THEN t0 ELSE t3]
        /\ exec' = [exec EXCEPT ![o].st = "done"]
        /\ events' = [events EXCEPT ![o] = @ \o emitted]
        /\ subs' = bridge.subs
        /\ listeners' = bridge.listeners
        /\ last' = [op |-> "resolve", task |-> o, result |-> result]
        /\ UNCHANGED <<tasks, taskOrder, handler, awaiting, now, authToken>>

\* executeTask that looks the task up again by id after the await, so that
\* the result goes to whatever record the store holds for the id by then.
executeTaskResolved_ById(o, result) ==
    LET target == IF tasks[heap[o].id] = 0 THEN o ELSE tasks[heap[o].id]
        t0 == heap[target]
        t1 == [t0 EXCEPT !.history = Append(@, result.response)]
        evMessage == TaskEvent("message", target, t1, MessageExtra(result.response))
        t2 == IF result.hasArtifacts THEN [t1 EXCEPT !.artifacts = result.artifacts] ELSE t1
        evArtifacts == IF result.hasArtifacts
                       THEN ArtifactEvents(target, t2, result.artifacts) ELSE <<>>
        t3 == [t2 EXCEPT !.status = CompletedStatus]
        emitted == <<evMessage>> \o evArtifacts \o <<TaskEvent("status", target, t3, NoExtra)>>
        bridge == EmitAll(emitted, Bridge)
    IN  /\ exec[o].st = "pending"
        /\ heap' = [heap EXCEPT ![target] = t3]
        /\ exec' = [exec EXCEPT ![o].st = "done"]
        /\ events' = [events EXCEPT ![target] = @ \o emitted]
        /\ subs' = bridge.subs
        /\ listeners' = bridge.listeners
        /\ last' = [op |-> "resolve", task |-> o, result |-> result]
        /\ UNCHANGED <<tasks, taskOrder, handler, awaiting, now, authToken>>

\* executeTask without the assignment of line 100: the returned artifacts are
\* announced but the record keeps the artifacts it had.
executeTaskResolved_KeepsArtifacts(o, result) ==
    LET t0 == heap[o]
        t1 == [t0 EXCEPT !.history = Append(@, result.response)]
        evMessage == TaskEvent("message", o, t1, MessageExtra(result.response))
        evArtifacts == IF result.hasArtifacts
                       THEN ArtifactEvents(o, t1, result.artifacts) ELSE <<>>
        t3 == [t1 EXCEPT !.status = CompletedStatus]
        emitted == <<evMessage>> \o evArtifacts \o <<TaskEvent("status", o, t3, NoExtra)>>
        bridge == EmitAll(emitted, Bridge)
    IN  /\ exec[o].st = "pending"
        /\ heap' = [heap EXCEPT ![o] = t3]
        /\ exec' = [exec EXCEPT ![o].st = "done"]
        /\ events' = [events EXCEPT ![o] = @ \o emitted]
        /\ subs' = bridge.subs
        /\ listeners' = bridge.listeners
        /\ last' = [op |-> "resolve", task |-> o, result |-> result]
        /\ UNCHANGED <<tasks, taskOrder, handler, awaiting, now, authToken>>

\* executeTask that writes the task back into the map once it is completed.
executeTaskResolved_Stores(o, result) ==
    LET t0 == heap[o]
        t1 == [t0 EXCEPT !.history = Append(@, result.response)]
        evMessage == TaskEvent("message", o, t1, MessageExtra(result.response))
        t2 == IF result.hasArtifacts THEN [t1 EXCEPT !.artifacts = result.artifacts] ELSE t1
        evArtifacts == IF result.hasArtifacts
                       THEN ArtifactEvents(o, t2, result.artifacts) ELSE <<>>
        t3 == [t2 EXCEPT !.status = CompletedStatus]
        emitted == <<evMessage>> \o evArtifacts \o <<TaskEvent("status", o, t3, NoExtra)>>
        bridge == EmitAll(emitted, Bridge)
    IN  /\ exec[o].st = "pending"
        /\ heap' = [heap EXCEPT ![o] = t3]
        /\ exec' = [exec EXCEPT ![o].st = "done"]
        /\ events' = [events EXCEPT ![o] = @ \o emitted]
        /\ subs' = bridge.subs
        /\ listeners' = bridge.listeners
        /\ last' = [op |-> "resolve", task |-> o, result |-> result]
        /\ tasks' = [tasks EXCEPT ![heap[o].id] = o]
        /\ UNCHANGED <<taskOrder, handler, awaiting, now, authToken>>

\* Lines 94-111: the handler promise fulfilled with `result`.
executeTaskResolved(o, result) ==
    LET t0 == heap[o]
        t1 == [t0 EXCEPT !.history = Append(@, result.response)]
        evMessage == TaskEvent("message", o, t1, MessageExtra(result.response))
        t2 == IF result.hasArtifacts THEN [t1 EXCEPT !.artifacts = result.artifacts] ELSE t1
        evArtifacts == IF result.hasArtifacts
                       THEN ArtifactEvents(o, t2, result.artifacts) ELSE <<>>
        t3 == [t2 EXCEPT !.status = CompletedStatus]
        emitted == <<evMessage>> \o evArtifacts \o <<TaskEvent("status", o, t3, NoExtra)>>
        bridge == EmitAll(emitted, Bridge)
    IN  /\ exec[o].st = "pending"
        /\ heap' = [heap EXCEPT ![o] = t3]
        /\ exec' = [exec EXCEPT ![o].st = "done"]
        /\ events' = [events EXCEPT ![o] = @ \o emitted]
        /\ subs' = bridge.subs
        /\ listeners' = bridge.listeners
        /\ last' = [op |-> "resolve", task |-> o, result |-> result]
        /\ UNCHANGED <<tasks, taskOrder, handler, awaiting, now, authToken>>

\* The catch block followed by the removal of the failed task from the store.
executeTaskRejected_Evicts(o, error) ==
    LET failed == [heap[o] EXCEPT !.status = FailedStatus(error)]
        emitted == <<TaskEvent("status", o, failed, NoExtra)>>
        bridge == EmitAll(emitted, Bridge)
    IN  /\ exec[o].st = "pending"
        /\ heap' = [heap EXCEPT ![o] = failed]
        /\ tasks' = [id \in DOMAIN tasks |-> IF tasks[id] = o THEN 0 ELSE tasks[id]]
        /\ exec' = [exec EXCEPT ![o].st = "done"]
        /\ events' = [events EXCEPT ![o] = @ \o emitted]
        /\ subs' = bridge.subs
        /\ listeners' = bridge.listeners
        /\ last' = [op |-> "reject", task |-> o, error |-> error]
        /\ UNCHANGED <<taskOrder, handler, awaiting, now, authToken>>

\* Lines 112-119: the handler promise rejected with `error`.
\* A catch block that announces the failure twice.
executeTaskRejected_EmitsTwice(o, error) ==
    LET failed == [heap[o] EXCEPT !.status = FailedStatus(error)]
        emitted == <<TaskEvent("status", o, failed, NoExtra),
                     TaskEvent("status", o, failed, NoExtra)>>
        bridge == EmitAll(emitted, Bridge)
    IN  /\ exec[o].st = "pending"
        /\ heap' = [heap EXCEPT ![o] = failed]
        /\ exec' = [exec EXCEPT ![o].st = "done"]
        /\ events' = [events EXCEPT ![o] = @ \o emitted]
        /\ subs' = bridge.subs
        /\ listeners' = bridge.listeners
        /\ last' = [op |-> "reject", task |-> o, error |-> error]
        /\ UNCHANGED <<tasks, taskOrder, handler, awaiting, now, authToken>>

\* executeTask without the catch block: a rejection ends the execution and
\* leaves the status as it is.
executeTaskRejected_NoCatch(o, error) ==
    /\ exec[o].st = "pending"
    /\ exec' = [exec EXCEPT ![o].st = "done"]
    /\ last' = [op |-> "reject", task |-> o, error |-> error]
    /\ UNCHANGED <<heap, tasks, taskOrder, handler, events, subs, listeners, awaiting,
                   now, authToken>>

executeTaskRejected(o, error) ==
    LET failed == [heap[o] EXCEPT !.status = FailedStatus(error)]
        emitted == <<TaskEvent("status", o, failed, NoExtra)>>
        bridge == EmitAll(emitted, Bridge)
    IN  /\ exec[o].st = "pending"
        /\ heap' = [heap EXCEPT ![o] = failed]
        /\ exec' = [exec EXCEPT ![o].st = "done"]
        /\ events' = [events EXCEPT ![o] = @ \o emitted]
        /\ subs' = bridge.subs
        /\ listeners' = bridge.listeners
        /\ last' = [op |-> "reject", task |-> o, error |-> error]
        /\ UNCHANGED <<tasks, taskOrder, handler, awaiting, now, authToken>>

----------------------------------------------------------------------------
(* TaskManager.getTask, TaskManager.cancelTask and its JSON-RPC caller      *)

\* this.tasks.get(taskId): the Task object stored for the id, 0 for undefined.
getTask(taskId) == tasks[taskId]

\* cancelTask without the check of lines 133-135: a completed or failed task
\* is canceled like any other.
cancelTask_NoTerminalCheck(taskId) ==
    LET o == tasks[taskId] IN
    IF o = 0
    THEN [ret |-> FALSE, heap |-> heap, events |-> events, emitted |-> <<>>]
    ELSE LET canceled == [heap[o] EXCEPT !.status = CanceledStatus]
             emitted == <<TaskEvent("status", o, canceled, NoExtra)>>
         IN  [ret |-> TRUE,
              heap |-> [heap EXCEPT ![o] = canceled],
              events |-> [events EXCEPT ![o] = @ \o emitted],
              emitted |-> emitted]

\* cancelTask without the emitTaskEvent call of line 141.
cancelTask_NoEvent(taskId) ==
    LET o == tasks[taskId] IN
    IF o = 0
    THEN [ret |-> FALSE, heap |-> heap, events |-> events, emitted |-> <<>>]
    ELSE IF heap[o].status.state = "completed" \/ heap[o].status.state = "failed"
    THEN [ret |-> FALSE, heap |-> heap, events |-> events, emitted |-> <<>>]
    ELSE [ret |-> TRUE,
          heap |-> [heap EXCEPT ![o] = [heap[o] EXCEPT !.status = CanceledStatus]],
          events |-> events,
          emitted |-> <<>>]

\* The return value of cancelTask(taskId) and the store after the call.
cancelTask(taskId) ==
    LET o == tasks[taskId] IN
    IF o = 0
    THEN [ret |-> FALSE, heap |-> heap, events |-> events, emitted |-> <<>>]
    ELSE IF heap[o].status.state = "completed" \/ heap[o].status.state = "failed"
    THEN [ret |-> FALSE, heap |-> heap, events |-> events, emitted |-> <<>>]
    ELSE LET canceled == [heap[o] EXCEPT !.status = CanceledStatus]
             emitted == <<TaskEvent("status", o, canceled, NoExtra)>>
         IN  [ret |-> TRUE,
              heap |-> [heap EXCEPT ![o] = canceled],
              events |-> [events EXCEPT ![o] = @ \o emitted],
              emitted |-> emitted]

\* result.success, result.reason and result.state where result is the value
\* cancelTask returned: a primitive boolean has none of these properties.
GetProperty(result, name) == IF result \in BOOLEAN THEN Undefined ELSE result[name]

\* JavaScript truthiness of a property value.
Truthy(v) == v \notin {Undefined, Null, "", "false"}

\* Lines 123-150 of handleTaskCancel: the mapping of cancelTask's result.
CancelResponse(result) ==
    IF ~Truthy(GetProperty(result, "success"))
    THEN IF GetProperty(result, "reason") = "not_found"
         THEN RpcError(ErrorCodes.TASK_NOT_FOUND)
         ELSE RpcError(ErrorCodes.TASK_CANNOT_BE_CANCELED)
    ELSE RpcResult("canceled")

IsCancelEvent(ev) == ev.type = "status" /\ ev.state = "canceled"

RECURSIVE CountCancelEvents(_)
CountCancelEvents(logs) ==
    IF logs = <<>> THEN 0
    ELSE Len(SelectSeq(Head(logs), IsCancelEvent)) + CountCancelEvents(Tail(logs))

NumCancelEvents == CountCancelEvents(events)

\* handleTaskCancel with params that pass TaskCancelParamsSchema.
handleTaskCancel(id) ==
    LET c == cancelTask(id)
        bridge == EmitAll(c.emitted, Bridge)
    IN  /\ FromEventLoop
        /\ NumCancelEvents < MaxCancels
        /\ heap' = c.heap
        /\ events' = c.events
        /\ subs' = bridge.subs
        /\ listeners' = bridge.listeners
        /\ last' = [op |-> "tasks/cancel", id |-> id, ret |-> c.ret,
                    response |-> CancelResponse(c.ret)]
        /\ UNCHANGED <<tasks, taskOrder, handler, exec, awaiting, now, authToken>>

----------------------------------------------------------------------------
(* TaskManager.listTasks and its JSON-RPC caller                            *)

\* The default of TaskListParamsSchema.limit and of the destructuring in
\* listTasks.
DefaultLimit == 50

\* Array.prototype.indexOf, counting from 1; 0 when the value is absent.
RECURSIVE IndexFrom(_, _, _)
IndexFrom(seq, x, i) ==
    IF i > Len(seq) THEN 0
    ELSE IF seq[i] = x THEN i
    ELSE IndexFrom(seq, x, i + 1)

IndexOf(seq, x) == IndexFrom(seq, x, 1)

\* Truthiness of a string or undefined: the empty string is falsy.
TruthyString(x) == x \notin {Undefined, ""}

\* The loop of lines 167-179 from position i (counted from 1) with the Task
\* objects collected so far.
RECURSIVE CollectTasks(_, _, _, _)
CollectTasks(i, acc, limit, state) ==
    IF i > Len(taskOrder) \/ Len(acc) >= limit THEN acc
    ELSE LET taskId == taskOrder[i]
         IN  IF ~TruthyString(taskId) THEN CollectTasks(i + 1, acc, limit, state)
             ELSE IF /\ getTask(taskId) # 0
                     /\ (~TruthyString(state) \/ heap[getTask(taskId)].status.state = state)
                  THEN CollectTasks(i + 1, Append(acc, getTask(taskId)), limit, state)
                  ELSE CollectTasks(i + 1, acc, limit, state)

\* listTasks({limit, cursor, state}): the page of Task objects, hasMore and
\* nextCursor (hasCursor tells whether the result has the property).
listTasks(limit, cursor, state) ==
    LET cursorIndex == IF TruthyString(cursor) THEN IndexOf(taskOrder, cursor) ELSE 0
        startIndex == cursorIndex + 1
        page == CollectTasks(startIndex, <<>>, limit, state)
        lastTaskId == IF page = <<>> THEN Undefined ELSE heap[page[Len(page)]].id
        lastTaskIndex == IF TruthyString(lastTaskId) THEN IndexOf(taskOrder, lastTaskId) ELSE 0
        hasMore == lastTaskIndex >= 1 /\ lastTaskIndex < Len(taskOrder)
        hasCursor == hasMore /\ TruthyString(lastTaskId)
    IN  [tasks |-> page, hasMore |-> hasMore, hasCursor |-> hasCursor,
         nextCursor |-> IF hasCursor THEN lastTaskId ELSE Undefined]

\* handleTaskList with params that pass TaskListParamsSchema.
handleTaskList(limit, cursor, state) ==
    /\ FromEventLoop
    /\ last' = [op |-> "tasks/list", limit |-> limit, cursor |-> cursor, state |-> state,
                result |-> RpcResult(listTasks(limit, cursor, state))]
    /\ UNCHANGED <<heap, tasks, taskOrder, handler, exec, events, subs, listeners, awaiting, now, authToken>>

----------------------------------------------------------------------------
(* TaskManager.cleanup and the clock                                        *)

\* The default of the maxAgeMs parameter.
DefaultMaxAgeMs == 24 * 60 * 60 * 1000

\* The entries of taskOrder from position i on that a sweep keeps: an entry is
\* spliced out when its id is deleted from the map and it is the first entry
\* with that id (indexOf, lines 205-208).
RECURSIVE SpliceOrder(_, _)
SpliceOrder(i, deleted) ==
    IF i > Len(taskOrder) THEN <<>>
    ELSE IF taskOrder[i] \in deleted /\ IndexOf(taskOrder, taskOrder[i]) = i
         THEN SpliceOrder(i + 1, deleted)
         ELSE <<taskOrder[i]>> \o SpliceOrder(i + 1, deleted)

\* cleanup(maxAgeMs): the map and the order list after the sweep.
cleanup(maxAgeMs) ==
    LET cutoff == now - maxAgeMs
        deleted == {id \in DOMAIN tasks :
                       /\ getTask(id) # 0
                       /\ heap[getTask(id)].status.timestamp < cutoff}
    IN  [tasks |-> [id \in DOMAIN tasks |-> IF id \in deleted THEN 0 ELSE tasks[id]],
         taskOrder |-> SpliceOrder(1, deleted)]

\* A call of taskManager.cleanup from the event loop.
cleanupCall(maxAgeMs) ==
    LET c == cleanup(maxAgeMs)
    IN  /\ FromEventLoop
        /\ tasks' = c.tasks
        /\ taskOrder' = c.taskOrder
        /\ last' = [op |-> "cleanup", maxAgeMs |-> maxAgeMs]
        /\ UNCHANGED <<heap, handler, exec, events, subs, listeners, awaiting, now, authToken>>

\* A millisecond passes.
Tick ==
    /\ now' = now + 1
    /\ last' = [op |-> "tick"]
    /\ UNCHANGED <<heap, tasks, taskOrder, handler, exec, events, subs, listeners,
                   awaiting, authToken>>

----------------------------------------------------------------------------
(* The streaming bridge: handleSSEStream                                    *)

\* Lines 112-123: headers are written and the task is created; the function
\* then waits for the promise of createTask.
handleSSEStreamCreate(id, sessionId, message, inv) ==
    /\ FromEventLoop
    /\ CanInvoke(inv)
    /\ LET c == createTask(id, sessionId, message, inv)
       IN  /\ heap' = c.heap
           /\ tasks' = c.tasks
           /\ taskOrder' = c.taskOrder
           /\ exec' = c.exec
           /\ events' = c.events
           /\ subs' = Append(c.subs, [taskId |-> id, task |-> c.task, pc |-> "created",
                                      sink |-> <<>>, ended |-> FALSE, closed |-> FALSE])
           /\ listeners' = c.listeners
           /\ last' = [op |-> "tasks/sendSubscribe", id |-> id, sessionId |-> sessionId,
                       message |-> message, task |-> c.task, inv |-> inv]
    /\ UNCHANGED <<handler, awaiting, now, authToken>>

\* Lines 125-149: the continuation after `await taskManager.createTask(params)`
\* registers eventHandler and the close callback.
handleSSEStreamSubscribe(s) ==
    /\ subs[s].pc = "created"
    /\ subs' = [subs EXCEPT ![s].pc = "registered"]
    /\ listeners' = listeners \cup {s}
    /\ last' = [op |-> "subscribe", sub |-> s]
    /\ UNCHANGED <<heap, tasks, taskOrder, handler, exec, events, awaiting, now, authToken>>

\* Lines 147-149: the 'close' callback of the response, run when the client
\* goes away or after res.end().
onClose(s) ==
    /\ FromEventLoop
    /\ subs[s].pc = "registered"
    /\ ~subs[s].closed
    /\ subs' = [subs EXCEPT ![s].closed = TRUE]
    /\ listeners' = Off(listeners, s)
    /\ last' = [op |-> "close", sub |-> s]
    /\ UNCHANGED <<heap, tasks, taskOrder, handler, exec, events, awaiting, now, authToken>>

----------------------------------------------------------------------------
(* JSON values and the zod schemas of src/src/models.ts                     *)

\* A JSON value with its type: a missing property, null, a string, a number,
\* a Message, or an object with the properties the params schemas look at.
Absent == [t |-> "absent"]
JNull == [t |-> "null"]
Str(s) == [t |-> "string", v |-> s]
Num(n) == [t |-> "number", n |-> n]
Msg(m) == [t |-> "message", m |-> m]
Obj(id, sessionId, message, limit, cursor, state) ==
    [t |-> "object", id |-> id, sessionId |-> sessionId, message |-> message,
     limit |-> limit, cursor |-> cursor, state |-> state]

\* z.string(), z.string().optional(), MessageSchema, TaskStateSchema.optional()
\* and z.number().int().positive().max(100).default(50): whether a value passes.
IsString(x) == x.t = "string"
IsOptionalString(x) == x.t \in {"absent", "string"}
IsMessage(x) == x.t = "message"
IsOptionalState(x) == x.t = "absent" \/ (x.t = "string" /\ x.v \in TaskStates)
MaxLimit == 100
IsLimit(x) == x.t = "absent" \/ (x.t = "number" /\ x.n >= 1 /\ x.n <= MaxLimit)

\* The issues safeParse reports, as the paths that fail; none means success.
\* Unknown properties are stripped and raise no issue.
TaskSendParamsIssues(p) ==
    IF p.t # "object" THEN {"params"}
    ELSE {f \in {"id", "sessionId", "message"} :
             \/ f = "id" /\ ~IsString(p.id)
             \/ f = "sessionId" /\ ~IsOptionalString(p.sessionId)
             \/ f = "message" /\ ~IsMessage(p.message)}

TaskIdParamsIssues(p) ==
    IF p.t # "object" THEN {"params"}
    ELSE IF IsString(p.id) THEN {} ELSE {"id"}

TaskListParamsIssues(p) ==
    IF p.t # "object" THEN {"params"}
    ELSE {f \in {"limit", "cursor", "state"} :
             \/ f = "limit" /\ ~IsLimit(p.limit)
             \/ f = "cursor" /\ ~IsOptionalString(p.cursor)
             \/ f = "state" /\ ~IsOptionalState(p.state)}

\* JSONRPCRequestSchema: jsonrpc is the literal '2.0', method a string, params
\* anything, id a string or a number.
JSONRPCRequestIssues(request) ==
    IF request.t # "object" THEN {"request"}
    ELSE {f \in {"jsonrpc", "method", "id"} :
             \/ f = "jsonrpc" /\ request.jsonrpc # Str("2.0")
             \/ f = "method" /\ ~IsString(request.method)
             \/ f = "id" /\ request.id.t \notin {"string", "number"}}

\* The value of an optional string property once parsed.
OptionalString(x) == IF x.t = "string" THEN x.v ELSE Undefined

\* JavaScript truthiness of a JSON value (the `params || {}` of line 185).
TruthyValue(x) ==
    /\ x.t \notin {"absent", "null"}
    /\ x # Str("")
    /\ x # Num(0)

EmptyObject == Obj(Absent, Absent, Absent, Absent, Absent, Absent)

----------------------------------------------------------------------------
(* The JSON-RPC dispatcher: handleRPC and the per-method handlers           *)

RpcInvalid(code, issues) == [kind |-> "error", code |-> code, data |-> issues]
RpcMarker(params) == [kind |-> "marker", params |-> params]

NoCall == [op |-> "none"]

\* Each handler gives its response (still without id), the calls it makes on
\* the task store, in order, and the one call that changes the store.

\* handleTaskSend, lines 49-71: the response is built after createTask.
rpcTaskSend(params) ==
    IF TaskSendParamsIssues(params) # {}
    THEN [response |-> RpcInvalid(ErrorCodes.INVALID_PARAMS, TaskSendParamsIssues(params)),
          calls |-> <<>>, effect |-> NoCall]
    ELSE [response |-> [kind |-> "pending"],
          calls |-> <<"createTask">>,
          effect |-> [op |-> "createTask", id |-> params.id.v,
                      sessionId |-> OptionalString(params.sessionId),
                      message |-> params.message.m]]

\* handleTaskSendSubscribe with a createTask call of its own.
rpcTaskSendSubscribe_Creates(params) ==
    IF TaskSendParamsIssues(params) # {}
    THEN [response |-> RpcInvalid(ErrorCodes.INVALID_PARAMS, TaskSendParamsIssues(params)),
          calls |-> <<>>, effect |-> NoCall]
    ELSE [response |-> RpcMarker([id |-> params.id.v,
                                  sessionId |-> OptionalString(params.sessionId),
                                  message |-> params.message.m]),
          calls |-> <<"createTask">>, effect |-> NoCall]

\* handleTaskSendSubscribe, lines 156-179.
rpcTaskSendSubscribe(params) ==
    IF TaskSendParamsIssues(params) # {}
    THEN [response |-> RpcInvalid(ErrorCodes.INVALID_PARAMS, TaskSendParamsIssues(params)),
          calls |-> <<>>, effect |-> NoCall]
    ELSE [response |-> RpcMarker([id |-> params.id.v,
                                  sessionId |-> OptionalString(params.sessionId),
                                  message |-> params.message.m]),
          calls |-> <<>>, effect |-> NoCall]

\* handleTaskGet that answers with a result for any id.
rpcTaskGet_NoNotFound(params) ==
    IF TaskIdParamsIssues(params) # {}
    THEN [response |-> RpcInvalid(ErrorCodes.INVALID_PARAMS, TaskIdParamsIssues(params)),
          calls |-> <<>>, effect |-> NoCall]
    ELSE [response |-> IF getTask(params.id.v) = 0 THEN RpcResult(Undefined)
                       ELSE RpcResult(heap[getTask(params.id.v)]),
          calls |-> <<"getTask">>, effect |-> NoCall]

\* handleTaskGet, lines 73-106.
rpcTaskGet(params) ==
    IF TaskIdParamsIssues(params) # {}
    THEN [response |-> RpcInvalid(ErrorCodes.INVALID_PARAMS, TaskIdParamsIssues(params)),
          calls |-> <<>>, effect |-> NoCall]
    ELSE [response |-> IF getTask(params.id.v) = 0
                       THEN RpcError(ErrorCodes.TASK_NOT_FOUND)
                       ELSE RpcResult(heap[getTask(params.id.v)]),
          calls |-> <<"getTask">>, effect |-> NoCall]

\* handleTaskCancel, lines 108-151.
rpcTaskCancel(params) ==
    IF TaskIdParamsIssues(params) # {}
    THEN [response |-> RpcInvalid(ErrorCodes.INVALID_PARAMS, TaskIdParamsIssues(params)),
          calls |-> <<>>, effect |-> NoCall]
    ELSE [response |-> CancelResponse(cancelTask(params.id.v).ret),
          calls |-> <<"cancelTask">>,
          effect |-> [op |-> "cancelTask", id |-> params.id.v]]

\* handleTaskList, lines 184-206: falsy params are replaced by {} before the
\* schema sees them.
rpcTaskList(params) ==
    LET p == IF TruthyValue(params) THEN params ELSE EmptyObject
    IN  IF TaskListParamsIssues(p) # {}
        THEN [response |-> RpcInvalid(ErrorCodes.INVALID_PARAMS, TaskListParamsIssues(p)),
              calls |-> <<>>, effect |-> NoCall]
        ELSE [response |-> RpcResult(listTasks(IF p.limit.t = "absent" THEN DefaultLimit
                                               ELSE p.limit.n,
                                               OptionalString(p.cursor),
                                               OptionalString(p.state))),
              calls |-> <<"listTasks">>, effect |-> NoCall]

\* A default branch that lists the tasks.
rpcMethodNotFound_Lists == rpcTaskList(Absent)

\* The default branch of handleRPC, lines 247-255.
rpcMethodNotFound ==
    [response |-> RpcError(ErrorCodes.METHOD_NOT_FOUND), calls |-> <<>>, effect |-> NoCall]

RpcMethods == {"tasks/send", "tasks/sendSubscribe", "tasks/get", "tasks/cancel", "tasks/list"}

\* handleRPC without the assignment of line 258.
handleRPC_DropsId(request) ==
    IF JSONRPCRequestIssues(request) # {}
    THEN [id |-> Absent,
          response |-> RpcInvalid(ErrorCodes.INVALID_REQUEST, JSONRPCRequestIssues(request)),
          calls |-> <<>>, effect |-> NoCall]
    ELSE LET method == request.method.v
             r == CASE method = "tasks/send" -> rpcTaskSend(request.params)
                    [] method = "tasks/sendSubscribe" -> rpcTaskSendSubscribe(request.params)
                    [] method = "tasks/get" -> rpcTaskGet(request.params)
                    [] method = "tasks/cancel" -> rpcTaskCancel(request.params)
                    [] method = "tasks/list" -> rpcTaskList(request.params)
                    [] OTHER -> rpcMethodNotFound
         IN  [id |-> Absent, response |-> r.response, calls |-> r.calls, effect |-> r.effect]

\* handleRPC, lines 212-261: the envelope is validated, the method's handler
\* is called and the request id is written onto its response.
handleRPC(request) ==
    IF JSONRPCRequestIssues(request) # {}
    THEN [id |-> Absent,
          response |-> RpcInvalid(ErrorCodes.INVALID_REQUEST, JSONRPCRequestIssues(request)),
          calls |-> <<>>, effect |-> NoCall]
    ELSE LET method == request.method.v
             r == CASE method = "tasks/send" -> rpcTaskSend(request.params)
                    [] method = "tasks/sendSubscribe" -> rpcTaskSendSubscribe(request.params)
                    [] method = "tasks/get" -> rpcTaskGet(request.params)
                    [] method = "tasks/cancel" -> rpcTaskCancel(request.params)
                    [] method = "tasks/list" -> rpcTaskList(request.params)
                    [] OTHER -> rpcMethodNotFound
         IN  [id |-> request.id, response |-> r.response, calls |-> r.calls,
              effect |-> r.effect]

----------------------------------------------------------------------------
(* The HTTP transport: handleA2ARequest, handleRPCEndpoint, the REST routes *)

\* An HTTP request: its method, the route its url selects in
\* handleA2ARequest ("rpc" for /a2a, "tasks" for /a2a/tasks with or without a
\* query, "task" for /a2a/tasks/:id, "cancel" for /a2a/tasks/:id/cancel), the
\* :id of the url, the Authorization header, the body and the query.
HttpRequest(httpMethod, route, taskId, authorization, body, query) ==
    [httpMethod |-> httpMethod, route |-> route, taskId |-> taskId,
     authorization |-> authorization, body |-> body, query |-> query]

Bearer(token) == [scheme |-> "Bearer", credentials |-> token]
Unparseable == [t |-> "unparseable"]
NoQuery == [limit |-> Absent, cursor |-> Absent, state |-> Absent]

HttpOk == 200
HttpBadRequest == 400
HttpUnauthorized == 401
HttpForbidden == 403
HttpNotFound == 404

\* The outcome of a request that stops before any handler of the store.
Rejected(status, response) ==
    [status |-> status, dispatched |-> FALSE, id |-> Absent, response |-> response,
     calls |-> <<>>, effect |-> NoCall, stream |-> FALSE]

\* Lines 160-173 of handleRPCEndpoint: the status the bearer check ends the
\* request with, or 200 when the request may go on.
AuthStatus(authorization) ==
    IF ~TruthyString(authToken) THEN HttpOk
    ELSE IF authorization = Absent \/ authorization.scheme # "Bearer" THEN HttpUnauthorized
    ELSE IF authorization.credentials # authToken THEN HttpForbidden
    ELSE HttpOk

\* handleRPCEndpoint, lines 152-213, for a POST: the bearer check, the parse
\* of the body, handleRPC and, for the streaming marker, the createTask call
\* of handleSSEStream (line 123).
handleRPCEndpoint(req) ==
    IF AuthStatus(req.authorization) # HttpOk
    THEN Rejected(AuthStatus(req.authorization), [kind |-> "http-error"])
    ELSE IF req.body = Unparseable
    THEN Rejected(HttpBadRequest, RpcError(ErrorCodes.PARSE_ERROR))
    ELSE LET r == handleRPC(req.body)
         IN  IF r.response.kind = "marker"
             THEN [status |-> HttpOk, dispatched |-> TRUE, id |-> r.id,
                   response |-> r.response, calls |-> r.calls \o <<"createTask">>,
                   effect |-> [op |-> "createTask", id |-> r.response.params.id,
                               sessionId |-> r.response.params.sessionId,
                               message |-> r.response.params.message],
                   stream |-> TRUE]
             ELSE [status |-> HttpOk, dispatched |-> TRUE, id |-> r.id,
                   response |-> r.response, calls |-> r.calls, effect |-> r.effect,
                   stream |-> FALSE]

\* parseInt(url.searchParams.get('limit') || '50', 10) for a query value that
\* is missing or a string of decimal digits (held as the number it denotes).
ParseLimit(x) == IF x.t = "absent" THEN DefaultLimit ELSE x.n

\* handleListTasks, lines 222-245: the query goes to listTasks as it is.
handleListTasks(req) ==
    [status |-> HttpOk, dispatched |-> FALSE, id |-> JNull,
     response |-> RpcResult(listTasks(ParseLimit(req.query.limit),
                                      OptionalString(req.query.cursor),
                                      OptionalString(req.query.state))),
     calls |-> <<"listTasks">>, effect |-> NoCall, stream |-> FALSE]

\* handleGetTask, lines 250-278.
handleGetTask(req) ==
    [status |-> IF getTask(req.taskId) = 0 THEN HttpNotFound ELSE HttpOk,
     dispatched |-> FALSE, id |-> JNull,
     response |-> IF getTask(req.taskId) = 0 THEN RpcError(ErrorCodes.TASK_NOT_FOUND)
                  ELSE RpcResult(heap[getTask(req.taskId)]),
     calls |-> <<"getTask">>, effect |-> NoCall, stream |-> FALSE]

\* handleCancelTask, lines 283-321: it reads result.success and result.reason
\* of what cancelTask returned, as handleTaskCancel does.
handleCancelTask(req) ==
    LET result == cancelTask(req.taskId).ret
        failed == ~Truthy(GetProperty(result, "success"))
        notFound == GetProperty(result, "reason") = "not_found"
    IN  [status |-> IF ~failed THEN HttpOk
                    ELSE IF notFound THEN HttpNotFound ELSE HttpBadRequest,
         dispatched |-> FALSE, id |-> JNull,
         response |-> IF ~failed THEN RpcResult("task")
                      ELSE IF notFound THEN RpcError(ErrorCodes.TASK_NOT_FOUND)
                      ELSE RpcError(ErrorCodes.TASK_CANNOT_BE_CANCELED),
         calls |-> IF failed THEN <<"cancelTask">> ELSE <<"cancelTask", "getTask">>,
         effect |-> [op |-> "cancelTask", id |-> req.taskId], stream |-> FALSE]

\* handleA2ARequest, lines 323-355: the routing by url and method.
handleA2ARequest(req) ==
    IF req.route = "rpc" /\ req.httpMethod = "POST" THEN handleRPCEndpoint(req)
    ELSE IF req.route = "task" /\ req.httpMethod = "GET" THEN handleGetTask(req)
    ELSE IF req.route = "tasks" /\ req.httpMethod = "GET" THEN handleListTasks(req)
    ELSE IF req.route = "cancel" /\ req.httpMethod = "POST" THEN handleCancelTask(req)
    ELSE Rejected(HttpNotFound, [kind |-> "http-error"])

\* One HTTP request from its arrival to the first point where its handler
\* waits: the response of every route but tasks/send and tasks/sendSubscribe
\* is complete by then.  inv is how the handler call ends if a task is created.
httpRequest(req, inv) ==
    \E out \in {handleA2ARequest(req)} :
    LET e == out.effect
        c == createTask(e.id, e.sessionId, e.message, inv)
        k == cancelTask(e.id)
        bridge == EmitAll(k.emitted, Bridge)
        created == e.op = "createTask"
        canceled == e.op = "cancelTask"
    IN  /\ FromEventLoop
        /\ created => CanInvoke(inv)
        /\ ~created => inv.kind = "pending"
        /\ heap' = IF created THEN c.heap ELSE IF canceled THEN k.heap ELSE heap
        /\ tasks' = IF created THEN c.tasks ELSE tasks
        /\ taskOrder' = IF created THEN c.taskOrder ELSE taskOrder
        /\ exec' = IF created THEN c.exec ELSE exec
        /\ events' = IF created THEN c.events ELSE IF canceled THEN k.events ELSE events
        /\ subs' = IF created
                   THEN IF out.stream
                        THEN Append(c.subs, [taskId |-> e.id, task |-> c.task,
                                             pc |-> "created", sink |-> <<>>,
                                             ended |-> FALSE, closed |-> FALSE])
                        ELSE c.subs
                   ELSE IF canceled THEN bridge.subs ELSE subs
        /\ listeners' = IF created THEN c.listeners
                        ELSE IF canceled THEN bridge.listeners ELSE listeners
        /\ awaiting' = IF created /\ ~out.stream
                       THEN [task |-> c.task, rejected |-> c.rejected, id |-> out.id]
                       ELSE awaiting
        /\ last' = [op |-> "http", request |-> req, status |-> out.status,
                    dispatched |-> out.dispatched, id |-> out.id,
                    response |-> out.response, calls |-> out.calls,
                    stream |-> out.stream,
                    task |-> IF created THEN c.task ELSE 0]
        /\ UNCHANGED <<handler, now, authToken>>

\* The continuation of a tasks/send request after createTask: handleTaskSend
\* builds the result (lines 64-70), handleRPC writes the id onto it (line 258)
\* and handleRPCEndpoint sends it (lines 202-203).
httpSendResponse ==
    /\ awaiting.task # 0
    /\ "id" \in DOMAIN awaiting
    /\ awaiting' = NotAwaiting
    /\ last' = [op |-> "http.response", status |-> HttpOk, id |-> awaiting.id,
                task |-> awaiting.task,
                response |-> IF awaiting.rejected
                             THEN RpcError(ErrorCodes.INTERNAL_ERROR)
                             ELSE RpcResult(heap[awaiting.task])]
    /\ UNCHANGED <<heap, tasks, taskOrder, handler, exec, events, subs, listeners,
                   now, authToken>>

----------------------------------------------------------------------------
\* Requests without a sessionId, so that the store generates one.
Next ==
    \/ \E h \in Handlers : setHandler(h)
    \/ \E id \in TaskIds, m \in Messages, inv \in Invocations :
          Len(heap) < MaxTasks /\ handleTaskSend(id, Undefined, m, inv)
    \/ handleTaskSendReturn
    \/ \E o \in DOMAIN heap, r \in HandlerResults : executeTaskResolved(o, r)
    \/ \E o \in DOMAIN heap, e \in ThrownValues : executeTaskRejected(o, e)
    \/ \E id \in TaskIds : handleTaskCancel(id)
    \/ \E id \in TaskIds, m \in Messages, inv \in Invocations :
          /\ Len(heap) < MaxTasks
          /\ Len(subs) < MaxSubs
          /\ handleSSEStreamCreate(id, Undefined, m, inv)
    \/ \E s \in DOMAIN subs : handleSSEStreamSubscribe(s)
    \/ \E s \in DOMAIN subs : onClose(s)

Spec == Init /\ [][Next]_vars

\* Requests that reuse one id with different session ids and messages; an
\* empty sessionId passes the schema like any other string.
ReplaceIds == {"t1"}
SessionIds == {Undefined, "", "s1", "s2"}
ReplaceMessages == {[role |-> "user", text |-> "hi"], [role |-> "user", text |-> "again"]}

NextReplace ==
    \/ \E h \in Handlers : setHandler(h)
    \/ \E id \in ReplaceIds, sid \in SessionIds, m \in ReplaceMessages, inv \in Invocations :
          Len(heap) < MaxTasks /\ handleTaskSend(id, sid, m, inv)
    \/ handleTaskSendReturn
    \/ \E o \in DOMAIN heap, r \in HandlerResults : executeTaskResolved(o, r)
    \/ \E o \in DOMAIN heap, e \in ThrownValues : executeTaskRejected(o, e)

SpecReplace == Init /\ [][NextReplace]_vars

\* Requests that fill the store and list it: ids (the empty string passes the
\* schema), page sizes, cursors (one of them names no task) and state filters.
ListIds == {"", "t1", "t2", "t3"}
Limits == {1, 2, DefaultLimit}
Cursors == {Undefined, "", "t1", "t2", "unknown"}
StateFilters == {Undefined, "submitted", "canceled"}

\* No handler is registered here: tasks are submitted until they are canceled.
NextList ==
    \/ \E id \in ListIds, m \in Messages, inv \in Invocations :
          /\ Len(heap) < MaxListTasks
          /\ handleTaskSend(id, Undefined, m, inv)
    \/ handleTaskSendReturn
    \/ \E id \in ListIds : handleTaskCancel(id)
    \/ \E limit \in Limits, cursor \in Cursors, state \in StateFilters :
          handleTaskList(limit, cursor, state)

SpecList == Init /\ [][NextList]_vars

\* Tasks that age and are swept: the clock advances between the calls.
MaxAges == {0, 1, DefaultMaxAgeMs}
CleanupResults == {[response |-> Response, hasArtifacts |-> FALSE, artifacts |-> <<>>]}

CleanupErrors == {[isError |-> TRUE, message |-> "boom"]}

NextCleanup ==
    \/ \E h \in Handlers : setHandler(h)
    \/ \E id \in TaskIds, m \in Messages, inv \in Invocations :
          Len(heap) < MaxTasks /\ handleTaskSend(id, Undefined, m, inv)
    \/ handleTaskSendReturn
    \/ \E o \in DOMAIN heap, r \in CleanupResults : executeTaskResolved(o, r)
    \/ \E id \in TaskIds : handleTaskCancel(id)
    \/ now < MaxTime /\ Tick
    \/ \E maxAgeMs \in MaxAges : cleanupCall(maxAgeMs)

SpecCleanup == Init /\ [][NextCleanup]_vars

----------------------------------------------------------------------------
(* Two handlers registered one after the other                              *)

SwapHandlers == {"h1", "h2"}

\* What the promise returned by handler h resolves with: h signs its reply.
ResultsOf(h) ==
    {[response |-> [role |-> "agent", text |-> h], hasArtifacts |-> FALSE, artifacts |-> <<>>]}

NextSwap ==
    \/ \E h \in SwapHandlers : setHandler(h)
    \/ \E id \in TaskIds, m \in Messages, inv \in Invocations :
          Len(heap) < MaxTasks /\ handleTaskSend(id, Undefined, m, inv)
    \/ handleTaskSendReturn
    \/ \E o \in DOMAIN heap : \E r \in ResultsOf(exec[o].h) : executeTaskResolved(o, r)
    \/ \E o \in DOMAIN heap, e \in ThrownValues : executeTaskRejected(o, e)

SpecSwap == Init /\ [][NextSwap]_vars

----------------------------------------------------------------------------
(* Cleanup while handler invocations are under way                          *)

MaxFlightTasks == 2   \* createTask calls in one behaviour

FlightIds == {"t1"}

NextFlight ==
    \/ \E h \in Handlers : setHandler(h)
    \/ \E id \in FlightIds, m \in Messages, inv \in Invocations :
          Len(heap) < MaxFlightTasks /\ handleTaskSend(id, Undefined, m, inv)
    \/ handleTaskSendReturn
    \/ \E o \in DOMAIN heap, r \in CleanupResults : executeTaskResolved(o, r)
    \/ \E o \in DOMAIN heap, e \in CleanupErrors : executeTaskRejected(o, e)
    \/ now < MaxTime /\ Tick
    \/ cleanupCall(0)

SpecFlight == Init /\ [][NextFlight]_vars

----------------------------------------------------------------------------
(* Handlers that settle: every invocation under way ends                    *)

MaxLiveTasks == 2   \* createTask calls in one behaviour with settling handlers

\* The continuation of executeTask for the Task object o after the await of
\* line 92: the promise of the handler fulfils or rejects.
Settle(o) ==
    /\ o \in DOMAIN heap
    /\ \/ \E r \in CleanupResults : executeTaskResolved(o, r)
       \/ \E e \in ThrownValues : executeTaskRejected(o, e)

NextLive ==
    \/ \E h \in Handlers : setHandler(h)
    \/ \E id \in TaskIds, m \in Messages, inv \in Invocations :
          Len(heap) < MaxLiveTasks /\ handleTaskSend(id, Undefined, m, inv)
    \/ handleTaskSendReturn
    \/ \E o \in 1..MaxLiveTasks : Settle(o)
    \/ \E id \in TaskIds : handleTaskCancel(id)

\* Every handler invocation settles, and the job queue runs the continuation
\* of a settled promise.
SpecLive ==
    Init /\ [][NextLive]_vars /\ \A o \in 1..MaxLiveTasks : WF_vars(Settle(o))

----------------------------------------------------------------------------
(* The HTTP server: JSON-RPC and REST requests, with or without a token      *)

MaxRpcTasks == 2    \* createTask calls in one behaviour of the HTTP server
MaxRpcCancels == 1  \* cancelTask calls of the HTTP server that emit an event

AuthTokens == {Undefined, "secret"}

Envelope(jsonrpc, method, params, id) ==
    [t |-> "object", jsonrpc |-> jsonrpc, method |-> method, params |-> params, id |-> id]

SendParams(id, sessionId, message) == Obj(id, sessionId, message, Absent, Absent, Absent)
IdParams(id) == Obj(id, Absent, Absent, Absent, Absent, Absent)
ListParams(limit, cursor, state) == Obj(Absent, Absent, Absent, limit, cursor, state)

HelloMsg == Msg([role |-> "user", text |-> "hi"])

Rpc(method, params) == Envelope(Str("2.0"), Str(method), params, Str("r1"))

\* Bodies for tasks/send and tasks/sendSubscribe: well-formed params, and
\* params without message, with a number as sessionId, and none at all.
CreateBodies ==
    {Rpc(m, p) : m \in {"tasks/send", "tasks/sendSubscribe"},
                 p \in {SendParams(Str("t1"), Absent, HelloMsg),
                        SendParams(Str("t1"), Num(1), HelloMsg),
                        IdParams(Str("t1")), Absent}}

\* Bodies for tasks/get and tasks/cancel: a stored or unknown id, a number as
\* id, no id, null.
IdBodies ==
    {Rpc(m, p) : m \in {"tasks/get", "tasks/cancel"},
                 p \in {IdParams(Str(id)) : id \in TaskIds}
                        \cup {IdParams(Num(1)), EmptyObject, JNull}}

\* Bodies for tasks/list: no params, {}, every kind of limit, cursor and
\* state, and params that are no object.
ListBodies ==
    {Rpc("tasks/list", p) :
        p \in {ListParams(Num(n), Absent, Absent) : n \in {0, 1, MaxLimit, MaxLimit + 1}}
              \cup {ListParams(Absent, Str("t1"), Absent), ListParams(Absent, Num(1), Absent),
                    ListParams(Absent, Absent, Str("submitted")),
                    ListParams(Absent, Absent, Str("bogus")),
                    Absent, EmptyObject, JNull, Str(""), Num(0), Str("t1")}}

\* An unknown method, a number as request id, and bodies that fail
\* JSONRPCRequestSchema or are no JSON at all.
OtherBodies ==
    {Rpc("foo/bar", IdParams(Str("t1"))), Rpc("foo/bar", Absent),
     Envelope(Str("2.0"), Str("tasks/get"), IdParams(Str("t1")), Num(7)),
     Envelope(Str("2.0"), Str("tasks/get"), IdParams(Num(1)), Num(7)),
     Envelope(Str("2.0"), Str("foo/bar"), Absent, Num(7)),
     Envelope(Str("1.0"), Str("tasks/get"), IdParams(Str("t1")), Str("r1")),
     Envelope(Str("2.0"), Absent, IdParams(Str("t1")), Str("r1")),
     Envelope(Str("2.0"), Str("tasks/get"), IdParams(Str("t1")), Absent),
     Envelope(Str("2.0"), Str("tasks/cancel"), IdParams(Str("t1")), JNull),
     JNull, Unparseable}

Bodies == CreateBodies \cup IdBodies \cup ListBodies \cup OtherBodies

\* The bodies sent with a missing, malformed or wrong Authorization header.
CoreBodies ==
    {Rpc("tasks/send", SendParams(Str("t1"), Absent, HelloMsg)),
     Rpc("tasks/sendSubscribe", SendParams(Str("t1"), Absent, HelloMsg)),
     Rpc("tasks/get", IdParams(Str("t1"))),
     Rpc("tasks/cancel", IdParams(Str("t1"))),
     Rpc("tasks/list", Absent)}

GoodHeader == Bearer("secret")
BadHeaders == {Absent, Bearer("wrong"), [scheme |-> "Basic", credentials |-> "secret"]}

Queries ==
    {NoQuery}
    \cup {[limit |-> Num(n), cursor |-> Absent, state |-> Absent] :
            n \in {0, 1, MaxLimit, MaxLimit + 1}}
    \cup {[limit |-> Absent, cursor |-> Str("t1"), state |-> Absent],
          [limit |-> Absent, cursor |-> Absent, state |-> Str("submitted")],
          [limit |-> Absent, cursor |-> Absent, state |-> Str("bogus")]}

RpcRequests ==
    {HttpRequest("POST", "rpc", Undefined, GoodHeader, b, NoQuery) : b \in Bodies}
    \cup {HttpRequest("POST", "rpc", Undefined, h, b, NoQuery) :
            h \in BadHeaders, b \in CoreBodies}

RestRequests ==
    {HttpRequest("GET", "tasks", Undefined, GoodHeader, Absent, q) : q \in Queries}
    \cup {HttpRequest("GET", "tasks", Undefined, Absent, Absent, NoQuery)}
    \cup {HttpRequest("GET", "task", id, h, Absent, NoQuery) :
            id \in TaskIds, h \in {Absent, GoodHeader}}
    \cup {HttpRequest("POST", "cancel", id, h, Absent, NoQuery) :
            id \in TaskIds, h \in {Absent, GoodHeader}}
    \cup {HttpRequest("GET", "rpc", Undefined, GoodHeader, Absent, NoQuery),
          HttpRequest("GET", "cancel", "t1", GoodHeader, Absent, NoQuery),
          HttpRequest("POST", "tasks", Undefined, GoodHeader, Absent, NoQuery)}

HttpRequests == RpcRequests \cup RestRequests

\* Whether a request is for a route and a method that create a task, open a
\* stream or cancel a task.
Creates(req) ==
    /\ req.route = "rpc" /\ req.body # Unparseable /\ req.body.t = "object"
    /\ req.body.method \in {Str("tasks/send"), Str("tasks/sendSubscribe")}
Streams(req) == Creates(req) /\ req.body.method = Str("tasks/sendSubscribe")
Cancels(req) ==
    \/ req.route = "cancel"
    \/ /\ req.route = "rpc" /\ req.body # Unparseable /\ req.body.t = "object"
       /\ req.body.method = Str("tasks/cancel")

InitRpc ==
    /\ heap = <<>>
    /\ tasks = [id \in StoreIds |-> 0]
    /\ taskOrder = <<>>
    /\ handler = Null
    /\ exec = <<>>
    /\ events = <<>>
    /\ subs = <<>>
    /\ listeners = {}
    /\ awaiting = NotAwaiting
    /\ now = 0
    /\ authToken \in AuthTokens
    /\ last = [op |-> "init"]

NextRpc ==
    \/ \E req \in HttpRequests, inv \in Invocations :
          /\ Creates(req) => Len(heap) < MaxRpcTasks
          /\ Streams(req) => Len(subs) < MaxSubs
          /\ Cancels(req) => NumCancelEvents < MaxRpcCancels
          /\ httpRequest(req, inv)
    \/ httpSendResponse
    \/ \E s \in DOMAIN subs : handleSSEStreamSubscribe(s)

SpecRpc == InitRpc /\ [][NextRpc]_vars

----------------------------------------------------------------------------
(* Observations used by the properties below                                *)

IsStatusEvent(ev) == ev.type = "status"

\* The states a Task object went through: every assignment to task.status is
\* followed by the emission of a status event carrying the object.
RECURSIVE StatesOf(_)
StatesOf(log) ==
    IF log = <<>> THEN <<>>
    ELSE IF IsStatusEvent(Head(log)) THEN <<Head(log).state>> \o StatesOf(Tail(log))
    ELSE StatesOf(Tail(log))

\* The pairs of distinct consecutive states in a sequence of states.
Changes(states) ==
    {<<states[i], states[i + 1]>> : i \in {j \in 1..(Len(states) - 1) : states[j] # states[j + 1]}}

DiagramEdges ==
    {<<"submitted", "working">>, <<"working", "completed">>, <<"working", "failed">>,
     <<"submitted", "canceled">>, <<"working", "canceled">>}

LateSettlementEdges == {<<"canceled", "completed">>, <<"canceled", "failed">>}

StartsSubmitted(o) ==
    /\ events[o] # <<>>
    /\ StatesOf(events[o])[1] = "submitted"
    /\ StatesOf(events[o])[Len(StatesOf(events[o]))] = heap[o].status.state

\* The Task object the map holds for an id (0 when the id is not stored).
Stored(id) == tasks[id]

----------------------------------------------------------------------------
\* C1 (as stated): every task starts at submitted and every status change is
\* one of submitted->working, working->completed, working->failed,
\* submitted->canceled, working->canceled; nothing leaves completed, failed
\* or canceled.
C1_Original ==
    \A o \in DOMAIN heap :
        /\ StartsSubmitted(o)
        /\ Changes(StatesOf(events[o])) \subseteq DiagramEdges

\* C1 (amended): every task starts at submitted and every status change is
\* one of the five edges of the diagram or, when the handler settles after a
\* cancellation, canceled->completed or canceled->failed; nothing leaves
\* completed or failed.
C1_Transitions ==
    \A o \in DOMAIN heap :
        /\ StartsSubmitted(o)
        /\ Changes(StatesOf(events[o])) \subseteq (DiagramEdges \cup LateSettlementEdges)

\* A task that was canceled while its handler was running and then completed.
C1_Witness ==
    \E o \in DOMAIN heap :
        StatesOf(events[o]) = <<"submitted", "working", "canceled", "completed">>

\* C2: when the handler settles on a task that was canceled in flight, the
\* settlement is applied: on fulfilment the response is appended to history
\* and the state becomes completed; on rejection the state becomes failed.
C2_LastWriteWins ==
    [][last'.op \in {"resolve", "reject"} =>
         LET o == last'.task IN
         (heap[o].status.state = "canceled" =>
            IF last'.op = "resolve"
            THEN /\ heap'[o].status.state = "completed"
                 /\ heap'[o].history = Append(heap[o].history, last'.result.response)
            ELSE /\ heap'[o].status.state = "failed"
                 /\ heap'[o].history = heap[o].history)]_vars

\* The handler resolved on a task whose previous status was canceled.
C2_Witness ==
    /\ last.op = "resolve"
    /\ LET st == StatesOf(events[last.task])
       IN  /\ Len(st) >= 2
           /\ st[Len(st) - 1] = "canceled"
           /\ st[Len(st)] = "completed"
    /\ Len(heap[last.task].history) = 2

\* C3: cancelTask on a stored task that is completed or failed fails with
\* reason terminal_state, reports the current state, leaves the record
\* unchanged and emits no event.
C3_TerminalStateReason ==
    [][last'.op = "tasks/cancel" =>
         LET o == Stored(last'.id) IN
         ((o # 0 /\ heap[o].status.state \in {"completed", "failed"}) =>
            /\ last'.ret = FALSE
            /\ GetProperty(last'.ret, "reason") = "terminal_state"
            /\ GetProperty(last'.ret, "state") = heap[o].status.state
            /\ heap' = heap
            /\ events' = events)]_vars

\* C4: cancelTask with an id that is not stored fails with reason not_found,
\* changes nothing in the store and emits no event.
C4_NotFoundReason ==
    [][last'.op = "tasks/cancel" =>
         ((Stored(last'.id) = 0) =>
            /\ last'.ret = FALSE
            /\ GetProperty(last'.ret, "reason") = "not_found"
            /\ heap' = heap /\ tasks' = tasks /\ taskOrder' = taskOrder
            /\ events' = events)]_vars

C6_CancelResponse ==
    [][last'.op = "tasks/cancel" =>
         LET o == Stored(last'.id)
             r == last'.response
         IN  /\ (r.kind = "result") <=> (last'.ret = TRUE)
             /\ (r.kind = "error" /\ r.code = -32001) <=> (o = 0)
             /\ (r.kind = "error" /\ r.code = -32002)
                    <=> (o # 0 /\ heap[o].status.state \in {"completed", "failed"})]_vars

----------------------------------------------------------------------------
(* The streaming bridge                                                     *)

TerminalStates == {"completed", "failed", "canceled"}

IsTerminalStatusEvent(ev) == ev.type = "status" /\ ev.state \in TerminalStates

\* The events of a log up to and including its first terminal status event
\* (the whole log when there is none).
RECURSIVE UpToTerminalStatus(_)
UpToTerminalStatus(log) ==
    IF log = <<>> THEN <<>>
    ELSE IF IsTerminalStatusEvent(Head(log)) THEN <<Head(log)>>
    ELSE <<Head(log)>> \o UpToTerminalStatus(Tail(log))

\* The client of stream s went away before the server ended the stream.
Disconnected(s) == subs[s].closed /\ ~subs[s].ended

\* C7: for every accepted tasks/sendSubscribe, once the handler invocation
\* has settled the subscriber has received a terminal-state status event of
\* its task and the stream has been ended, whenever the handler settles
\* relative to the registration of the listener.  (All events of a settlement
\* are emitted by the step that settles, so nothing can arrive later.)
C7_StreamEnds ==
    \A s \in DOMAIN subs :
        (/\ subs[s].pc = "registered"
         /\ exec[subs[s].task].st = "done"
         /\ ~Disconnected(s))
        => /\ subs[s].ended
           /\ \E i \in DOMAIN subs[s].sink :
                 /\ IsTerminalStatusEvent(subs[s].sink[i])
                 /\ subs[s].sink[i].task = subs[s].task

\* C8: the events forwarded to a subscriber are the events emitted for its
\* task from its creation up to and including the terminal status event, in
\* emission order, and nothing else.
C8_ForwardsEveryEvent ==
    \A s \in DOMAIN subs :
        (subs[s].pc = "registered" /\ ~Disconnected(s))
        => subs[s].sink = UpToTerminalStatus(events[subs[s].task])

\* C9: the listener of a stream is removed once a terminal-state event has
\* been forwarded or the sink has closed; a removal of an absent listener
\* changes nothing; and a stream whose listener is removed is never written
\* again, whichever of the two paths came first.
C9_Deregistration ==
    [][\A s \in DOMAIN subs' :
          /\ (subs'[s].ended \/ subs'[s].closed) => s \notin listeners'
          /\ subs'[s].ended <=>
                (/\ subs'[s].sink # <<>>
                 /\ subs'[s].sink[Len(subs'[s].sink)].state \in TerminalStates)
          /\ (s \in DOMAIN subs /\ subs[s].pc = "registered" /\ s \notin listeners) =>
                /\ subs'[s].sink = subs[s].sink
                /\ s \notin listeners'
          /\ (last'.op = "close" /\ last'.sub = s /\ subs[s].ended) =>
                /\ listeners' = listeners
                /\ subs'[s].sink = subs[s].sink]_vars

\* A stream that ended on a terminal event and whose close callback then ran.
C9_Witness ==
    \E s \in DOMAIN subs :
        /\ subs[s].ended
        /\ subs[s].closed
        /\ last.op = "close"

\* C10: when the handler rejects or throws, the state becomes failed with
\* status.message the Error's message ('Unknown error' for any other value),
\* history and artifacts are what they were before the invocation, and one
\* status event is emitted for the failure.
C10_HandlerFailure ==
    [][/\ last'.op = "reject" =>
            LET o == last'.task
                e == last'.error
            IN  /\ heap'[o].status.state = "failed"
                /\ heap'[o].status.message = (IF e.isError THEN e.message ELSE "Unknown error")
                /\ heap'[o].history = heap[o].history
                /\ heap'[o].artifacts = heap[o].artifacts
                /\ Len(events'[o]) = Len(events[o]) + 1
                /\ SubSeq(events'[o], 1, Len(events[o])) = events[o]
                /\ LET ev == events'[o][Len(events'[o])]
                   IN  ev.type = "status" /\ ev.state = "failed" /\ ev.task = o
       /\ last'.op \in {"tasks/send", "tasks/sendSubscribe"} =>
            (last'.inv.kind = "throw" =>
               LET o == last'.task
                   e == last'.inv.value
               IN  /\ heap'[o].status.state = "failed"
                   /\ heap'[o].status.message =
                         (IF e.isError THEN e.message ELSE "Unknown error")
                   /\ heap'[o].history = <<last'.message>>
                   /\ heap'[o].artifacts = <<>>
                   /\ StatesOf(events'[o]) = <<"submitted", "working", "failed">>
                   /\ Len(events'[o]) = 3)]_vars

\* The handler has just rejected with a value that is not an Error.
C10_Witness ==
    /\ last.op = "reject"
    /\ ~last.error.isError
    /\ heap[last.task].status.state = "failed"
    /\ heap[last.task].status.message = "Unknown error"

\* C11: when the handler resolves, the response (role agent) is appended as
\* the last element of the history, which becomes [request, response]; the
\* artifacts are replaced by the returned ones only when the handler returned
\* some and are left alone otherwise; the state becomes completed.
C11_HandlerResolves ==
    [][last'.op = "resolve" =>
         LET o == last'.task
             r == last'.result
         IN  /\ Len(heap[o].history) = 1
             /\ heap'[o].history = <<heap[o].history[1], r.response>>
             /\ heap'[o].history[2].role = "agent"
             /\ heap'[o].artifacts = IF r.hasArtifacts THEN r.artifacts
                                     ELSE heap[o].artifacts
             /\ heap'[o].status.state = "completed"]_vars

\* A handler resolved with at least one artifact and the record holds them.
C11_Witness ==
    /\ last.op = "resolve"
    /\ last.result.hasArtifacts
    /\ Len(last.result.artifacts) >= 1
    /\ heap[last.task].artifacts = last.result.artifacts
    /\ heap[last.task].history[2] = last.result.response

HasWorkingStatus(log) ==
    \E i \in 1..Len(log) : log[i].type = "status" /\ log[i].state = "working"

\* C12: when the handler resolves with k artifacts, the task's events from
\* that point are exactly one message event, then k artifact events in the
\* artifacts' order, then one status event for completed, nothing of that task
\* in between, and all after the task's status event for working.
C12_CompletionEvents ==
    [][last'.op = "resolve" =>
         LET o == last'.task
             r == last'.result
             k == IF r.hasArtifacts THEN Len(r.artifacts) ELSE 0
             new == SubSeq(events'[o], Len(events[o]) + 1, Len(events'[o]))
         IN  /\ SubSeq(events'[o], 1, Len(events[o])) = events[o]
             /\ HasWorkingStatus(events[o])
             /\ Len(new) = k + 2
             /\ new[1].type = "message"
             /\ new[1].extra = MessageExtra(r.response)
             /\ \A i \in 1..k :
                    /\ new[i + 1].type = "artifact"
                    /\ new[i + 1].extra = ArtifactExtra(r.artifacts[i])
             /\ new[k + 2].type = "status"
             /\ new[k + 2].state = "completed"
             /\ \A i \in 1..(k + 2) : new[i].task = o]_vars

\* A handler resolved with two artifacts, so that their order shows.
C12_Witness ==
    /\ last.op = "resolve"
    /\ last.result.hasArtifacts
    /\ Len(last.result.artifacts) = 2
    /\ Len(events[last.task]) >= 5
    /\ events[last.task][Len(events[last.task])].state = "completed"

\* C13: tasks/send with valid params always answers with a result, never an
\* error, whether the handler resolves, rejects or throws; a failing handler
\* never makes createTask reject and shows only as the task's failed status.
C13_SendNeverFails ==
    [][/\ (last'.op = "tasks/send" =>
             /\ awaiting' = [task |-> last'.task, rejected |-> FALSE]
             /\ (last'.inv.kind = "throw" =>
                    heap'[last'.task].status.state = "failed"))
       /\ (last'.op = "tasks/send.return" =>
             /\ last'.response.kind = "result"
             /\ last'.response.value = heap[last'.task]
             /\ last'.response.value.id = heap[awaiting.task].id)
       /\ (last'.op = "reject" =>
             /\ awaiting' = awaiting
             /\ heap'[last'.task].status.state = "failed")]_vars

\* tasks/send answered with a result although the handler had already failed.
C13_Witness ==
    /\ last.op = "tasks/send.return"
    /\ last.response.kind = "result"
    /\ last.response.value.status.state = "failed"
    /\ exec[last.task].st = "done"

\* C14 as stated: the task in the result of a tasks/send response is in state
\* submitted or working when the response is produced, whenever the handler
\* settles.
C14_Original ==
    [][last'.op = "tasks/send.return" =>
         last'.response.value.status.state \in {"submitted", "working"}]_vars

\* C14: the task in the result of a tasks/send response is the stored object
\* as it is when the dispatcher resumes: submitted when no handler was
\* registered, working when the handler has not settled yet, completed or
\* failed when the handler settled or threw before the dispatcher resumed, and
\* never canceled.
C14_ResponseState ==
    [][last'.op = "tasks/send.return" =>
         LET o == last'.task
             state == last'.response.value.status.state
         IN  /\ last'.response.value = heap'[o]
             /\ (state = "submitted") = (exec[o].st = "none")
             /\ (state = "working") = (exec[o].st = "pending")
             /\ (state \in {"completed", "failed"}) = (exec[o].st = "done")
             /\ state # "canceled"]_vars

\* The handler resolved before the dispatcher resumed: the response carries a
\* completed task with the request and the reply in its history.
C14_Witness ==
    /\ last.op = "tasks/send.return"
    /\ last.response.value.status.state = "completed"
    /\ Len(last.response.value.history) = 2

CreateOps == {"tasks/send", "tasks/sendSubscribe"}

\* C15: once createTask(id) has returned, getTask(id) returns that task and
\* never not-found, right away and after every later operation (settlement of
\* the execution, cancel, other creates), until a cleanup call removes it;
\* only a createTask with the same id makes getTask(id) return another task,
\* and reaching completed, failed or canceled removes nothing.
C15_StaysStored ==
    [][/\ (last'.op \in CreateOps => tasks'[last'.id] = last'.task)
       /\ \A id \in StoreIds :
             (getTask(id) # 0 /\ last'.op # "cleanup") =>
                /\ getTask(id)' # 0
                /\ (getTask(id)' # getTask(id) =>
                       last'.op \in CreateOps /\ last'.id = id)
       /\ (last'.op \in {"resolve", "reject", "tasks/cancel"} => tasks' = tasks)]_vars

\* A stored task has just failed and getTask still returns it.
C15_Witness ==
    /\ last.op = "reject"
    /\ getTask(heap[last.task].id) = last.task
    /\ heap[last.task].status.state = "failed"

\* C16: createTask with an id already in the store replaces the record and
\* merges nothing: getTask(id) then returns a new task whose history is only
\* the new message, whose artifacts are empty and whose sessionId is the one
\* of the new call (the given one, or a fresh one when none was given); the
\* earlier record is left as it was, and the settlement of an execution
\* changes no record but the one that execution was started for.
C16_ReplaceNoMerge ==
    [][/\ ((last'.op \in CreateOps /\ getTask(last'.id) # 0) =>
             LET old == getTask(last'.id)
                 new == tasks'[last'.id]
             IN  /\ new = last'.task
                 /\ new # old
                 /\ heap'[new].id = last'.id
                 /\ heap'[new].history[1] = last'.message
                 /\ Len(heap'[new].history) = 1
                 /\ heap'[new].artifacts = <<>>
                 /\ IF last'.sessionId \in {Undefined, ""}
                    THEN /\ heap'[new].sessionId.kind = "generated"
                         /\ heap'[new].sessionId # heap[old].sessionId
                    ELSE /\ heap'[new].sessionId.kind = "given"
                         /\ heap'[new].sessionId.value = last'.sessionId
                 /\ heap'[old] = heap[old])
       /\ (last'.op \in {"resolve", "reject"} =>
             \A q \in DOMAIN heap : q # last'.task => heap'[q] = heap[q])]_vars

\* The execution started for a replaced record resolved after the
\* replacement, and the store holds the record of the second call.
C16_Witness ==
    /\ last.op = "resolve"
    /\ getTask(heap[last.task].id) # 0
    /\ getTask(heap[last.task].id) # last.task
    /\ LET new == heap[getTask(heap[last.task].id)]
       IN  /\ Len(new.history) = 1
           /\ new.history[1] # heap[last.task].history[1]
           /\ new.sessionId # heap[last.task].sessionId
           /\ new.artifacts = <<>>

\* C17: a task created while no handler is registered never enters working,
\* completed or failed: it stays submitted through every later operation, a
\* later setHandler included, until it is canceled (or cleaned up), and the
\* handler registered later is never invoked for it.
C17_NoHandlerStaysSubmitted ==
    [][/\ ((last'.op \in CreateOps /\ handler = Null) =>
             /\ exec'[last'.task] = [st |-> "none", h |-> Null, arg |-> Undefined]
             /\ heap'[last'.task].status.state = "submitted")
       /\ \A o \in DOMAIN heap :
             exec[o].st = "none" =>
                /\ exec'[o] = exec[o]
                /\ heap'[o].status.state \in {"submitted", "canceled"}
                /\ (heap'[o].status.state # heap[o].status.state =>
                       last'.op = "tasks/cancel" /\ getTask(last'.id) = o)
                /\ \A i \in 1..Len(events'[o]) :
                       /\ events'[o][i].type = "status"
                       /\ events'[o][i].state \in {"submitted", "canceled"}]_vars

\* A handler was registered after the task was created and has since been
\* run for another task, while the first task is still submitted.
C17_Witness ==
    \E o \in DOMAIN heap :
        /\ exec[o].st = "none"
        /\ heap[o].status.state = "submitted"
        /\ handler # Null
        /\ last.op = "resolve"
        /\ last.task # o

----------------------------------------------------------------------------
(* Observations on listTasks                                               *)

\* The pages obtained by following nextCursor from `cursor`: the first call
\* with `limit`, the follow-up calls with `follow`, at most fuel + 1 calls.
RECURSIVE Pages(_, _, _, _, _)
Pages(limit, follow, cursor, state, fuel) ==
    LET r == listTasks(limit, cursor, state)
    IN  IF r.hasCursor /\ fuel > 0
        THEN <<r>> \o Pages(follow, follow, r.nextCursor, state, fuel - 1)
        ELSE <<r>>

RECURSIVE ConcatTasks(_)
ConcatTasks(pages) ==
    IF pages = <<>> THEN <<>> ELSE Head(pages).tasks \o ConcatTasks(Tail(pages))

\* The stored Task objects in insertion order.
AllStored == [i \in 1..Len(taskOrder) |-> getTask(taskOrder[i])]
StoredTasks == {getTask(id) : id \in StoreIds} \ {0}

DistinctIds ==
    \A i, j \in 1..Len(taskOrder) : i # j => taskOrder[i] # taskOrder[j]

\* Whether paging through the store from the start, first with `limit` and
\* then with `follow`, returns every task once, in insertion order, with
\* hasMore on every page but the last.
PagesCoverStore(limit, follow) ==
    LET pages == Pages(limit, follow, Undefined, Undefined, Len(taskOrder))
    IN  /\ ConcatTasks(pages) = AllStored
        /\ Len(pages[1].tasks) <= limit
        /\ \A p \in 2..Len(pages) : Len(pages[p].tasks) <= follow
        /\ \A p \in 1..Len(pages) : pages[p].hasMore = (p < Len(pages))

\* C18: for a store of tasks with pairwise distinct ids, listTasks with limit
\* L followed by calls with the returned nextCursor (with the same limit or
\* with the default one) returns every task exactly once, in insertion order,
\* at most the limit per page, hasMore being true on every page but the last.
C18_Pagination ==
    (last.op = "tasks/list" /\ last.cursor = Undefined /\ last.state = Undefined
        /\ DistinctIds) =>
       /\ last.result.value = listTasks(last.limit, Undefined, Undefined)
       /\ PagesCoverStore(last.limit, last.limit)
       /\ PagesCoverStore(last.limit, DefaultLimit)

\* C19: listTasks with a state filter returns only stored tasks in that
\* state, in insertion order; when the cursor names a stored task, matching
\* or not, every returned task was inserted after it and no matching task
\* inserted after it is passed over.
C19_FilterAndCursor ==
    (last.op = "tasks/list" /\ last.state # Undefined) =>
       LET page == last.result.value.tasks
           c == IF last.cursor \in StoreIds THEN getTask(last.cursor) ELSE 0
           Matching(o) == heap[o].status.state = last.state
           Returned == {page[k] : k \in 1..Len(page)}
       IN  /\ \A o \in Returned : o \in StoredTasks /\ Matching(o)
           /\ \A k \in 1..(Len(page) - 1) : page[k] < page[k + 1]
           /\ (c # 0 =>
                 /\ \A o \in Returned : o > c
                 /\ \A o \in StoredTasks \ Returned :
                       (o > c /\ Matching(o)) =>
                          (Len(page) = last.limit /\ o > page[Len(page)]))

\* C20: listTasks returns a nextCursor exactly when hasMore is true, the
\* nextCursor is the id of the last returned task, and hasMore is true only
\* when a follow-up call with that cursor and the same filter returns a task.
C20_CursorIffMore ==
    last.op = "tasks/list" =>
       LET r == last.result.value
       IN  /\ r.hasCursor = r.hasMore
           /\ (r.hasCursor =>
                 /\ r.tasks # <<>>
                 /\ r.nextCursor = heap[r.tasks[Len(r.tasks)]].id)
           /\ (r.hasMore =>
                 listTasks(last.limit, r.nextCursor, last.state).tasks # <<>>)

----------------------------------------------------------------------------
(* Observations on cleanup                                                 *)

\* Whether the task stored under id is older than maxAgeMs.
OlderThan(id, maxAgeMs) ==
    getTask(id) # 0 /\ heap[getTask(id)].status.timestamp < now - maxAgeMs

RECURSIVE WithoutOld(_, _)
WithoutOld(order, maxAgeMs) ==
    IF order = <<>> THEN <<>>
    ELSE IF OlderThan(Head(order), maxAgeMs) THEN WithoutOld(Tail(order), maxAgeMs)
    ELSE <<Head(order)>> \o WithoutOld(Tail(order), maxAgeMs)

\* C21: cleanup(maxAgeMs) removes exactly the tasks whose status timestamp is
\* older than now - maxAgeMs, whatever their state, from the map and from the
\* insertion order, and leaves every other task and the relative order of
\* the remaining entries unchanged.
C21_CleanupExact ==
    [][last'.op = "cleanup" =>
         /\ \A id \in StoreIds :
               tasks'[id] = IF OlderThan(id, last'.maxAgeMs) THEN 0 ELSE tasks[id]
         /\ taskOrder' = WithoutOld(taskOrder, last'.maxAgeMs)
         /\ heap' = heap]_vars

\* C22: cleanup(0) removes every task of the store whatever its state, a task
\* whose status timestamp is the current instant included, and cleanup with
\* a maxAge larger than the age of every task removes none.
C22_CleanupAllOrNone ==
    [][last'.op = "cleanup" =>
         /\ (last'.maxAgeMs = 0 => \A id \in StoreIds : tasks'[id] = 0)
         /\ ((\A id \in StoreIds :
                  getTask(id) # 0 =>
                     now - heap[getTask(id)].status.timestamp < last'.maxAgeMs)
               => (tasks' = tasks /\ taskOrder' = taskOrder))]_vars

----------------------------------------------------------------------------
(* Observations on the JSON-RPC dispatcher and the HTTP transport           *)

\* The body of the request of the latest step went through handleRPC and
\* passed JSONRPCRequestSchema.
Dispatched(l) ==
    /\ l.op = "http"
    /\ l.dispatched
    /\ JSONRPCRequestIssues(l.request.body) = {}

MethodOf(l) == l.request.body.method.v
ParamsOf(l) == l.request.body.params

StoreUnchanged ==
    UNCHANGED <<heap, tasks, taskOrder, exec, events, subs, listeners>>

\* What the schema of a method reports for params as they were sent; a
\* tasks/list request without params asks for the defaults.
ShapeIssues(method, params) ==
    CASE method \in {"tasks/send", "tasks/sendSubscribe"} -> TaskSendParamsIssues(params)
      [] method \in {"tasks/get", "tasks/cancel"} -> TaskIdParamsIssues(params)
      [] method = "tasks/list" ->
            IF params = Absent THEN {} ELSE TaskListParamsIssues(params)

\* C23: for each of the five methods, params that do not match the method's
\* shape yield INVALID_PARAMS (-32602) with the validation issues in
\* error.data; the store is neither invoked nor changed and no event is
\* emitted.
C23_InvalidParams ==
    [][(/\ Dispatched(last')
        /\ MethodOf(last') \in RpcMethods
        /\ ShapeIssues(MethodOf(last'), ParamsOf(last')) # {})
       => /\ last'.response.kind = "error"
          /\ last'.response.code = ErrorCodes.INVALID_PARAMS
          /\ last'.response.data = ShapeIssues(MethodOf(last'), ParamsOf(last'))
          /\ last'.calls = <<>>
          /\ StoreUnchanged]_vars

\* C24: a request with a valid envelope whose method is none of the five
\* returns METHOD_NOT_FOUND (-32601) and performs no store operation.
C24_MethodNotFound ==
    [][(Dispatched(last') /\ MethodOf(last') \notin RpcMethods)
       => /\ last'.response = RpcError(ErrorCodes.METHOD_NOT_FOUND)
          /\ last'.calls = <<>>
          /\ StoreUnchanged]_vars

C24_Witness ==
    /\ last.op = "http"
    /\ last.dispatched
    /\ JSONRPCRequestIssues(last.request.body) = {}
    /\ last.request.body.method = Str("foo/bar")
    /\ last.response = RpcError(ErrorCodes.METHOD_NOT_FOUND)
    /\ heap # <<>>

\* C25: tasks/get with valid params returns TASK_NOT_FOUND (-32001) exactly
\* when the id is not in the store and otherwise returns the stored task as
\* result; in both cases the store is left unchanged.
C25_GetTask ==
    [][(/\ Dispatched(last')
        /\ MethodOf(last') = "tasks/get"
        /\ TaskIdParamsIssues(ParamsOf(last')) = {})
       => /\ (tasks[ParamsOf(last').id.v] = 0
                <=> last'.response = RpcError(ErrorCodes.TASK_NOT_FOUND))
          /\ (tasks[ParamsOf(last').id.v] # 0
                => last'.response = RpcResult(heap[tasks[ParamsOf(last').id.v]]))
          /\ StoreUnchanged]_vars

C25_Witness ==
    /\ last.op = "http"
    /\ last.dispatched
    /\ JSONRPCRequestIssues(last.request.body) = {}
    /\ last.request.body.method = Str("tasks/get")
    /\ last.response.kind = "result"
    /\ last.response.value = heap[tasks["t1"]]
    /\ tasks["t2"] = 0

\* C26: whenever the inbound envelope is valid the response carries the
\* request's id unchanged, for every method and every outcome; an envelope
\* that fails shape validation yields INVALID_REQUEST (-32600) with no id
\* and no store operation.
C26_ResponseId ==
    [][/\ Dispatched(last') => last'.id = last'.request.body.id
       /\ (last'.op = "http.response" /\ last.op = "http")
             => last'.id = last.request.body.id
       /\ (/\ last'.op = "http"
           /\ last'.dispatched
           /\ JSONRPCRequestIssues(last'.request.body) # {})
          => /\ last'.response.kind = "error"
             /\ last'.response.code = ErrorCodes.INVALID_REQUEST
             /\ last'.id = Absent
             /\ last'.calls = <<>>
             /\ StoreUnchanged]_vars

C26_Witness ==
    /\ last.op = "http"
    /\ last.dispatched
    /\ last.id = Num(7)
    /\ last.response.kind = "error"
    /\ last.response.code = ErrorCodes.INVALID_PARAMS

\* C27: handleRPC for tasks/sendSubscribe with valid params returns the
\* streaming marker carrying the validated params and makes no call on the
\* store; exactly one task is created per accepted request, by the
\* transport when it opens the stream.
C27_MarkerThenOneTask ==
    [][(/\ Dispatched(last')
        /\ MethodOf(last') = "tasks/sendSubscribe"
        /\ TaskSendParamsIssues(ParamsOf(last')) = {})
       => /\ handleRPC(last'.request.body).response =
                RpcMarker([id |-> ParamsOf(last').id.v,
                           sessionId |-> OptionalString(ParamsOf(last').sessionId),
                           message |-> ParamsOf(last').message.m])
          /\ handleRPC(last'.request.body).calls = <<>>
          /\ handleRPC(last'.request.body).effect = NoCall
          /\ last'.stream
          /\ last'.calls = <<"createTask">>
          /\ Len(heap') = Len(heap) + 1
          /\ Len(subs') = Len(subs) + 1
          /\ tasks'[ParamsOf(last').id.v] = Len(heap')]_vars

C27_Witness ==
    /\ last.op = "http"
    /\ last.stream
    /\ last.task = Len(heap)
    /\ Len(subs) = 1
    /\ subs[1].task = last.task

\* C28: when an auth token is configured, no store operation is performed on
\* behalf of any HTTP request, JSON-RPC or REST, that lacks the correct
\* bearer token: the transport rejects it before the dispatcher and the
\* store.
C28_NoStoreWithoutToken ==
    [][(/\ last'.op = "http"
        /\ authToken # Undefined
        /\ last'.request.authorization # Bearer(authToken))
       => /\ ~last'.dispatched
          /\ last'.calls = <<>>
          /\ last'.status \in {HttpUnauthorized, HttpForbidden}
          /\ StoreUnchanged]_vars

\* The code of a response, 0 for a result.
CodeOf(response) == IF response.kind = "error" THEN response.code ELSE 0

\* The JSON-RPC handler's answer to the arguments of a REST request.
RestAsRpc(req) ==
    CASE req.route = "tasks" ->
            rpcTaskList(ListParams(req.query.limit, req.query.cursor, req.query.state))
      [] req.route = "task" -> rpcTaskGet(IdParams(Str(req.taskId)))
      [] req.route = "cancel" -> rpcTaskCancel(IdParams(Str(req.taskId)))

IsRest(l) ==
    /\ l.op = "http"
    /\ \/ l.request.route \in {"tasks", "task"} /\ l.request.httpMethod = "GET"
       \/ l.request.route = "cancel" /\ l.request.httpMethod = "POST"

\* C29: for the same store state and the same arguments, the REST
\* operations (list, get, cancel) make the same calls on the store and
\* return the same error code as tasks/list, tasks/get and tasks/cancel; a
\* list limit outside 1..100 is rejected and not passed to the store.
C29_RestEquivalent ==
    [][IsRest(last')
       => /\ CodeOf(last'.response) = CodeOf(RestAsRpc(last'.request).response)
          /\ last'.calls = RestAsRpc(last'.request).calls]_vars

----------------------------------------------------------------------------
(* Observations on the replacement of the handler                           *)

\* C30: the handler invoked for a task is the one registered when the
\* task's execution starts; a later setHandler never changes which handler
\* produces that task's result and affects only tasks created later.
C30_HandlerAtStart ==
    [][/\ \A o \in DOMAIN exec : exec'[o].h = exec[o].h
       /\ last'.op \in CreateOps =>
             /\ handler' = handler
             /\ exec'[Len(heap')].h = handler
       /\ last'.op = "setHandler" =>
             UNCHANGED <<heap, tasks, taskOrder, events>>
       /\ last'.op = "resolve" =>
             heap'[last'.task].history[Len(heap'[last'.task].history)].text
                = exec[last'.task].h]_vars

\* A task answered by h1 after h2 had replaced it, next to a task created
\* later and answered by h2.
C30_Witness ==
    /\ handler = "h2"
    /\ Len(heap) = 2
    /\ heap[1].status.state = "completed"
    /\ heap[1].history[Len(heap[1].history)].text = "h1"
    /\ heap[2].status.state = "completed"
    /\ heap[2].history[Len(heap[2].history)].text = "h2"
    /\ last.op = "resolve"
    /\ last.task = 1

----------------------------------------------------------------------------
(* Observations on the status message                                       *)

\* C31: in every reachable state a task's status carries a message if and
\* only if its state is failed, whatever status it overwrote; the same holds
\* for the status every status event was emitted with.
C31_MessageIffFailed ==
    \A o \in DOMAIN heap :
        /\ (heap[o].status.message # Undefined <=> heap[o].status.state = "failed")
        /\ \A i \in DOMAIN events[o] :
              events[o][i].type = "status" =>
                 (events[o][i].message # Undefined <=> events[o][i].state = "failed")

\* A failed status with its message that overwrote a canceled status, next
\* to a completed task.
C31_Witness ==
    /\ \E o \in DOMAIN heap :
          /\ heap[o].status.state = "failed"
          /\ heap[o].status.message = "Unknown error"
          /\ LET st == StatesOf(events[o])
             IN  Len(st) >= 2 /\ st[Len(st) - 1] = "canceled"
    /\ \E o \in DOMAIN heap : heap[o].status.state = "completed"

----------------------------------------------------------------------------
(* Observations on the start of the execution                               *)

\* C32 (as stated): if a handler is registered when createTask is called,
\* the handler has been invoked with the task's message when createTask
\* returns and the task is in state working for as long as the handler has
\* not settled, so that the task is never seen in state submitted.
C32_Original ==
    [][/\ (last'.op \in CreateOps /\ handler # Null) =>
             /\ exec'[last'.task].st # "none"
             /\ exec'[last'.task].arg = last'.message
       /\ \A o \in DOMAIN heap' :
             /\ exec'[o].st = "pending" => heap'[o].status.state = "working"
             /\ exec'[o].st # "none" => heap'[o].status.state # "submitted"]_vars

\* C32 (amended): if a handler is registered when createTask is called, the
\* handler has been invoked with the task's message when createTask returns;
\* for as long as the handler has not settled the task is in state working
\* or, once cancelTask was called on it, canceled; it is never seen in state
\* submitted.
C32_StartedAtReturn ==
    [][/\ (last'.op \in CreateOps /\ handler # Null) =>
             /\ exec'[last'.task].st # "none"
             /\ exec'[last'.task].arg = last'.message
       /\ \A o \in DOMAIN heap' :
             /\ exec'[o].st = "pending" =>
                   /\ heap'[o].status.state \in {"working", "canceled"}
                   /\ (heap'[o].status.state = "canceled" =>
                         \E i \in DOMAIN events'[o] : IsCancelEvent(events'[o][i]))
             /\ exec'[o].st # "none" => heap'[o].status.state # "submitted"]_vars

\* createTask has returned a task whose handler is still running: the
\* caller sees it working.
C32_Witness ==
    /\ last.op = "tasks/send.return"
    /\ exec[last.task].st = "pending"
    /\ exec[last.task].arg = heap[last.task].history[1]
    /\ last.response = RpcResult(heap[last.task])
    /\ heap[last.task].status.state = "working"

----------------------------------------------------------------------------
(* Observations on the end of the execution                                 *)

\* The Task object o stays in state st from now on.
StaysIn(o, st) == [](o \in DOMAIN heap /\ heap[o].status.state = st)

\* C33: every task created while a handler is registered eventually
\* reaches a terminal state (completed, failed or canceled) in which it
\* then remains forever, when its handler invocation settles, whatever
\* cancelTask calls are interleaved.
C33_ReachesTerminal ==
    \A o \in 1..MaxLiveTasks :
        [](o \in DOMAIN heap /\ exec[o].st # "none"
             => \/ <>StaysIn(o, "completed")
                \/ <>StaysIn(o, "failed")
                \/ <>StaysIn(o, "canceled"))

\* A task canceled while its handler was running has failed when the
\* handler rejected, and a later cancelTask is refused.
C33_Witness ==
    /\ last.op = "tasks/cancel"
    /\ last.ret = FALSE
    /\ tasks[last.id] # 0
    /\ exec[tasks[last.id]].st = "done"
    /\ StatesOf(events[tasks[last.id]]) = <<"submitted", "working", "canceled", "failed">>

----------------------------------------------------------------------------
(* Observations on the insertion order                                      *)

\* The number of entries of the insertion order that hold id.
Occurrences(id) == Cardinality({i \in DOMAIN taskOrder : taskOrder[i] = id})

\* C34: in every reachable state the insertion order and the task map
\* agree: every id of the map appears exactly once in the order, and the
\* order holds no id that is absent from the map, after any sequence of
\* createTask calls (repeated ids included) and cleanup calls.
C34_OrderAgreesWithMap ==
    \A id \in StoreIds :
        Occurrences(id) = IF tasks[id] # 0 THEN 1 ELSE 0

\* Whether a sequence holds no value twice.
NoRepeat(seq) == \A i, j \in DOMAIN seq : i # j => seq[i] # seq[j]

\* Following nextCursor from the first page, with at most one page per entry
\* of the insertion order and one more.
PagesFromStart(limit, state) == Pages(limit, limit, Undefined, state, Len(taskOrder))

\* C35: for any store reached by createTask and cleanup calls, calling
\* listTasks again and again with the nextCursor of the page before, the
\* store unchanged in between, ends: after finitely many pages hasMore is
\* false, and no task is returned on more than one page.
C35_PagingTerminates ==
    \A limit \in Limits, state \in StateFilters :
        LET pages == PagesFromStart(limit, state)
        IN  /\ ~pages[Len(pages)].hasMore
            /\ NoRepeat(ConcatTasks(pages))

----------------------------------------------------------------------------
(* Observations on the terminal status events                               *)

SettledStates == {"completed", "failed"}

\* C36 (as stated): for each task at most one status event carrying a
\* terminal state (completed, failed or canceled) is ever emitted.
C36_Original ==
    \A o \in DOMAIN heap :
        Len(SelectSeq(StatesOf(events[o]), LAMBDA st : st \in TerminalStates)) <= 1

\* C36 (amended): for each task at most one status event carrying completed
\* or failed is ever emitted and no status event follows it; before it, one
\* status event carrying canceled is emitted for each cancelTask call that
\* finds the task neither completed nor failed.
C36_OneSettledEvent ==
    [][/\ \A o \in DOMAIN heap' :
             LET st == StatesOf(events'[o])
             IN  \A i \in DOMAIN st : st[i] \in SettledStates => i = Len(st)
       /\ last'.op = "tasks/cancel" =>
             LET o == Stored(last'.id) IN
             ((o # 0 /\ heap[o].status.state \notin SettledStates) =>
                StatesOf(events'[o]) = Append(StatesOf(events[o]), "canceled"))]_vars

\* A task canceled twice while its handler was running, then completed:
\* three status events carrying a terminal state.
C36_Witness ==
    \E o \in DOMAIN heap :
        StatesOf(events[o]) = <<"submitted", "working", "canceled", "canceled", "completed">>

----------------------------------------------------------------------------
(* Observations on two tasks with one id                                    *)

\* C37: when a second task is created with the id of a task whose handler
\* invocation is still in flight, the events emitted later by the first
\* task's execution are not forwarded to a stream subscribed for the second
\* task and do not close it: a stream carries no event of a Task object
\* created before its own (objects are numbered in creation order).
C37_NoEarlierTaskEvents ==
    \A s \in DOMAIN subs :
        \A i \in DOMAIN subs[s].sink : subs[s].sink[i].task >= subs[s].task

----------------------------------------------------------------------------
(* Observations on tasks removed while their handler runs                   *)

\* The Task object o is the value of some id in the task map.
InMap(o) == \E id \in StoreIds : tasks[id] = o

\* Some listTasks call returns the Task object o.
Listed(o) ==
    \E limit \in Limits, cursor \in Cursors, state \in StateFilters :
        \E r \in {listTasks(limit, cursor, state)} :
            \E i \in DOMAIN r.tasks : r.tasks[i] = o

\* C38: if cleanup removes a task whose handler invocation is still in
\* flight, the later resolution or rejection of the invocation does not put
\* the task back into the task map or the insertion order: getTask(id) does
\* not return it and listTasks does not list it; only createTask, with a new
\* Task object, fills the id again.  (Every state has a successor, so the
\* first conjunct speaks of every reachable state.)
C38_NoReinsertion ==
    [][/\ \A o \in DOMAIN heap : ~InMap(o) => ~Listed(o) /\ (~InMap(o))'
       /\ last'.op \in {"resolve", "reject"} =>
             /\ tasks' = tasks
             /\ taskOrder' = taskOrder
             /\ \A id \in StoreIds : (getTask(id))' = getTask(id)]_vars

\* The handler has just rejected for a task that cleanup had removed while
\* the invocation was in flight.
C38_Witness ==
    /\ last.op = "reject"
    /\ ~InMap(last.task)
    /\ getTask(heap[last.task].id) = 0
    /\ heap[last.task].status.state = "failed"
    /\ StatesOf(events[last.task]) = <<"submitted", "working", "failed">>

====
